---- MODULE Spec2Model ----
(***************************************************************************)
(* A model of src/wasm_tools/src/instrumentation.rs: the instrumentation   *)
(* of a Wasm module (function-index renumbering, export normalisation,     *)
(* data-segment extraction, metering, growth guard and write barrier).     *)
(*                                                                         *)
(* A module is a record of its sections.  Options are sequences of length  *)
(* at most one (<<>> is None, <<x>> is Some(x)).  Indices are zero-based   *)
(* as in the source; sequences are one-based, so index i is element i+1.   *)
(***************************************************************************)
EXTENDS Integers, Sequences, FiniteSets, TLC

VARIABLES
    module,     \* the Module being instrumented
    orig,       \* the Module as it was before the last pass ran
    applied,    \* the passes that ran so far, in order
    flags,      \* [write_barrier, wasm_native_stable_memory]: FlagStatus each
    out,        \* the value returned by the last fallible pass
    machine,    \* the engine running the module: status, frames, stack, globals, memories
    ghost       \* history of the run (what executed, what the host saw)

vars == <<module, orig, applied, flags, out, machine, ghost>>

(***************************************************************************)
(* Bounds of the model.                                                    *)
(***************************************************************************)
MaxPasses == 3
MaxExports == 2
MaxSegments == 2

(***************************************************************************)
(* Generic helpers.                                                        *)
(***************************************************************************)
Last(s) == s[Len(s)]

RECURSIVE SeqsUpTo(_, _)
SeqsUpTo(S, n) ==
    IF n = 0 THEN {<<>>}
    ELSE LET shorter == SeqsUpTo(S, n - 1)
         IN  shorter \cup {Append(s, x) : s \in {t \in shorter : Len(t) = n - 1}, x \in S}

\* The engine before any function of the module is invoked.
IdleMachine ==
    [status |-> "idle", frames |-> <<>>, stack |-> <<>>, globals |-> <<>>, memories |-> <<>>]

\* The history of a run that has not started.
NoGhost ==
    [initial |-> 0, points |-> <<>>, executed |-> 0, entered |-> 0, bulk |-> 0,
     chain |-> 0, last |-> <<>>, grows |-> <<>>, host_calls |-> <<>>, stores |-> <<>>,
     marks |-> 0]

FlagStatus == {"Enabled", "Disabled"}

Flags == [write_barrier : FlagStatus, wasm_native_stable_memory : FlagStatus]

(***************************************************************************)
(* The module representation (crate::wasm_transform::Module as the source  *)
(* uses it): imports hold every imported item, the other sections hold the *)
(* locally defined ones.                                                   *)
(***************************************************************************)
FuncType(params, results) == [params |-> params, results |-> results]

Body(locals, instructions) == [locals |-> locals, instructions |-> instructions]

Import(mod, name, ty) == [module |-> mod, name |-> name, ty |-> ty]

Export(name, kind, index) == [name |-> name, kind |-> kind, index |-> index]

EmptyModule ==
    [types |-> <<>>, imports |-> <<>>, functions |-> <<>>, code_sections |-> <<>>,
     globals |-> <<>>, memories |-> <<>>, tables |-> <<>>, exports |-> <<>>,
     elements |-> <<>>, data |-> <<>>, start |-> <<>>]

\* The function imports of a module, in import order.
FuncImports(m) == SelectSeq(m.imports, LAMBDA imp : imp.ty.kind = "Func")

\* The size of the function index space: imported functions come first.
NumFunctions(m) == Len(FuncImports(m)) + Len(m.functions)

\* The function that function index i denotes: an import (by module and
\* name) or the j-th locally defined function.
FuncAt(m, i) ==
    IF i < Len(FuncImports(m))
    THEN [import |-> <<FuncImports(m)[i + 1].module, FuncImports(m)[i + 1].name>>]
    ELSE [local |-> i - Len(FuncImports(m))]

(***************************************************************************)
(* Index renumbering.                                                      *)
(***************************************************************************)
INSTRUMENTED_FUN_MODULE == "__"
OUT_OF_INSTRUCTIONS_FUN_NAME == "out_of_instructions"
UPDATE_MEMORY_FUN_NAME == "update_available_memory"
TRY_GROW_STABLE_MEMORY_FUN_NAME == "try_grow_stable_memory"
DEALLOCATE_PAGES_NAME == "deallocate_pages"
INTERNAL_TRAP_FUN_NAME == "internal_trap"

\* enum InjectedImports: the indices of the injected function imports.
OutOfInstructions == 0
UpdateAvailableMemory == 1
TryGrowStableMemory == 2
DeallocatePages == 3
InternalTrap == 4

InjectedImports_count(wasm_native_stable_memory) ==
    IF wasm_native_stable_memory = "Enabled" THEN 5 ELSE 2

\* add_type returns the index of the first equal signature, pushing the
\* signature when there is none.  The result is the new type section and
\* the index.
add_type(types, ty) ==
    IF \E i \in 1..Len(types) : types[i] = ty
    THEN [types |-> types,
          idx |-> (CHOOSE i \in 1..Len(types) :
                      types[i] = ty /\ \A j \in 1..(i - 1) : types[j] # ty) - 1]
    ELSE [types |-> Append(types, ty), idx |-> Len(types)]

\* The closures handed to mutate_function_indices: |i| i + cnt, and the
\* replacement map of replace_system_api_functions.
ShiftBy(cnt) == [kind |-> "shift", cnt |-> cnt]

apply_f(f, i) ==
    IF f.kind = "shift" THEN i + f.cnt
    ELSE IF i \in DOMAIN f.map THEN f.map[i] ELSE i

\* The match of mutate_function_indices on one instruction of a body.
mutate_operator(instr, f) ==
    IF instr.op \in {"Call", "ReturnCall", "RefFunc"}
    THEN [instr EXCEPT !.function_index = apply_f(f, @)]
    ELSE instr

\* Element items: only ElementItems::Functions is rewritten.
mutate_element(elem_items, f) ==
    IF elem_items.kind = "Functions"
    THEN [elem_items EXCEPT !.items = [j \in DOMAIN @ |-> apply_f(f, @[j])]]
    ELSE elem_items

mutate_export(exp, f) ==
    IF exp.kind = "Func" THEN [exp EXCEPT !.index = apply_f(f, @)] ELSE exp

mutate_function_indices(m, f) ==
    [m EXCEPT
        !.code_sections =
            [b \in DOMAIN @ |->
                [@[b] EXCEPT !.instructions =
                    [p \in DOMAIN @ |-> mutate_operator(@[p], f)]]],
        !.exports = [e \in DOMAIN @ |-> mutate_export(@[e], f)],
        !.elements = [e \in DOMAIN @ |-> mutate_element(@[e], f)],
        !.start = [s \in DOMAIN @ |-> apply_f(f, @[s])]]

inject_helper_functions(m, wasm_native_stable_memory) ==
    LET ooi == add_type(m.types, FuncType(<<>>, <<>>))
        uam == add_type(ooi.types, FuncType(<<"I32", "I32">>, <<"I32">>))
        tgsm == add_type(uam.types, FuncType(<<"I64", "I64", "I32">>, <<"I64">>))
        dp == add_type(tgsm.types, FuncType(<<"I64">>, <<>>))
        it == add_type(dp.types, FuncType(<<"I32">>, <<>>))
        fn(name, t) == Import(INSTRUMENTED_FUN_MODULE, name, [kind |-> "Func", index |-> t.idx])
        two == <<fn(OUT_OF_INSTRUCTIONS_FUN_NAME, ooi), fn(UPDATE_MEMORY_FUN_NAME, uam)>>
        three == <<fn(TRY_GROW_STABLE_MEMORY_FUN_NAME, tgsm), fn(DEALLOCATE_PAGES_NAME, dp),
                   fn(INTERNAL_TRAP_FUN_NAME, it)>>
        stable == wasm_native_stable_memory = "Enabled"
        cnt == InjectedImports_count(wasm_native_stable_memory)
    IN  mutate_function_indices(
            [m EXCEPT !.types = IF stable THEN it.types ELSE uam.types,
                      !.imports = (IF stable THEN two \o three ELSE two) \o m.imports],
            ShiftBy(cnt))

(***************************************************************************)
(* SpecIdx: inject_helper_functions on modules that refer to functions at  *)
(* every place the format allows: call, return_call and ref.func in code,  *)
(* function exports, element segments (function lists and expression       *)
(* lists), global initialisers and the start section.                      *)
(***************************************************************************)
Call(i) == [op |-> "Call", function_index |-> i]
ReturnCall(i) == [op |-> "ReturnCall", function_index |-> i]
RefFunc(i) == [op |-> "RefFunc", function_index |-> i]
Op(name) == [op |-> name]

Global(content_type, mutable, init_expr) ==
    [ty |-> [content_type |-> content_type, mutable |-> mutable], init_expr |-> init_expr]

\* The shapes of the function index space: two local functions, or an
\* imported function (after an imported global) and one local function.
IdxShapes ==
    {[imports |-> <<>>, nlocal |-> 2],
     [imports |-> <<Import("env", "g", [kind |-> "Global", mutable |-> FALSE]),
                    Import("ic0", "msg_reply", [kind |-> "Func", index |-> 0])>>,
      nlocal |-> 1]}

\* The lowest and the highest function index of a module with n functions.
IdxEnds(n) == {0, n - 1}

IdxBodies(n) ==
    {Body(<<>>, <<Op("Nop"), Op("End")>>)}
    \cup {Body(<<>>, <<Call(i), Op("End")>>) : i \in IdxEnds(n)}
    \cup {Body(<<>>, <<ReturnCall(i), Op("End")>>) : i \in IdxEnds(n)}
    \cup {Body(<<>>, <<RefFunc(i), Op("Drop"), Op("End")>>) : i \in IdxEnds(n)}

IdxExports(n) ==
    {<<Export("memory", "Memory", 0)>>}
    \cup {<<Export("canister_update f", "Func", i)>> : i \in IdxEnds(n)}

IdxElements(n) ==
    {<<[kind |-> "Expressions", items |-> <<Op("RefNull")>>]>>}
    \cup {<<[kind |-> "Functions", items |-> <<i>>]>> : i \in IdxEnds(n)}
    \cup {<<[kind |-> "Expressions", items |-> <<RefFunc(i)>>]>> : i \in IdxEnds(n)}

IdxGlobals(n) ==
    {<<Global("I32", TRUE, [op |-> "I32Const", value |-> 0])>>}
    \cup {<<Global("FuncRef", FALSE, RefFunc(i))>> : i \in IdxEnds(n)}

IdxStart(n) == {<<>>} \cup {<<i>> : i \in IdxEnds(n)}

IdxModulesWith(imports, nlocal) ==
    LET n == Len(SelectSeq(imports, LAMBDA imp : imp.ty.kind = "Func")) + nlocal
    IN  {[EmptyModule EXCEPT
            !.types = <<FuncType(<<>>, <<>>)>>,
            !.imports = imports,
            !.functions = [j \in 1..nlocal |-> 0],
            !.code_sections = [j \in 1..nlocal |-> IF j = 1 THEN b ELSE Body(<<>>, <<Op("End")>>)],
            !.memories = <<[memory64 |-> FALSE, shared |-> FALSE, initial |-> 1, maximum |-> <<>>]>>,
            !.tables = <<[element_type |-> "FuncRef", initial |-> 1]>>,
            !.exports = ex, !.elements = el, !.globals = gl, !.start = st] :
          b \in IdxBodies(n), ex \in IdxExports(n), el \in IdxElements(n),
          gl \in IdxGlobals(n), st \in IdxStart(n)}

IdxModules == UNION {IdxModulesWith(sh.imports, sh.nlocal) : sh \in IdxShapes}

InitIdx ==
    /\ module \in IdxModules
    /\ orig = module
    /\ applied = <<>>
    /\ flags \in {f \in Flags : f.write_barrier = "Disabled"}
    /\ out = <<>>
    /\ machine = IdleMachine
    /\ ghost = NoGhost

\* instrument's first step.
InjectHelperFunctions ==
    /\ applied = <<>>
    /\ module' = inject_helper_functions(module, flags.wasm_native_stable_memory)
    /\ orig' = module
    /\ applied' = <<"inject_helper_functions">>
    /\ UNCHANGED <<flags, out, machine, ghost>>

NextIdx == InjectHelperFunctions

SpecIdx == InitIdx /\ [][NextIdx]_vars

\* Every function index a module holds, by place.  An operator (in a body,
\* an element expression or a global initialiser) holds one when it is a
\* call, return_call or ref.func.
HoldsFuncIndex(instr) == instr.op \in {"Call", "ReturnCall", "RefFunc"}

OperatorShifted(new, old, k) ==
    IF HoldsFuncIndex(old)
    THEN new.op = old.op /\ new.function_index = old.function_index + k
    ELSE new = old

CodeShifted(new, old, k) ==
    /\ Len(new.code_sections) = Len(old.code_sections)
    /\ \A b \in DOMAIN old.code_sections :
        /\ Len(new.code_sections[b].instructions) = Len(old.code_sections[b].instructions)
        /\ \A p \in DOMAIN old.code_sections[b].instructions :
            OperatorShifted(new.code_sections[b].instructions[p],
                            old.code_sections[b].instructions[p], k)

ExportsShifted(new, old, k) ==
    /\ Len(new.exports) = Len(old.exports)
    /\ \A e \in DOMAIN old.exports :
        new.exports[e] = IF old.exports[e].kind = "Func"
                         THEN [old.exports[e] EXCEPT !.index = @ + k]
                         ELSE old.exports[e]

ElementsShifted(new, old, k) ==
    /\ Len(new.elements) = Len(old.elements)
    /\ \A e \in DOMAIN old.elements :
        /\ new.elements[e].kind = old.elements[e].kind
        /\ Len(new.elements[e].items) = Len(old.elements[e].items)
        /\ \A j \in DOMAIN old.elements[e].items :
            IF old.elements[e].kind = "Functions"
            THEN new.elements[e].items[j] = old.elements[e].items[j] + k
            ELSE OperatorShifted(new.elements[e].items[j], old.elements[e].items[j], k)

GlobalInitsShifted(new, old, k) ==
    /\ Len(new.globals) = Len(old.globals)
    /\ \A g \in DOMAIN old.globals :
        OperatorShifted(new.globals[g].init_expr, old.globals[g].init_expr, k)

StartShifted(new, old, k) ==
    /\ Len(new.start) = Len(old.start)
    /\ \A s \in DOMAIN old.start : new.start[s] = old.start[s] + k

SameFunctions(new, old, k) ==
    /\ NumFunctions(new) = NumFunctions(old) + k
    /\ \A i \in 0..(NumFunctions(old) - 1) : FuncAt(new, i + k) = FuncAt(old, i)

\* C1: after inject_helper_functions prepends k imports and renumbers,
\* every function-index occurrence of the module (call, return_call and
\* ref.func operands wherever they occur, function exports, element-segment
\* entries, the start index) is its old value + k, and the function that
\* was at index i is the function at index i + k.
C1_EveryFunctionIndexShifted ==
    applied = <<"inject_helper_functions">> =>
        LET k == InjectedImports_count(flags.wasm_native_stable_memory)
        IN  /\ CodeShifted(module, orig, k)
            /\ ExportsShifted(module, orig, k)
            /\ ElementsShifted(module, orig, k)
            /\ GlobalInitsShifted(module, orig, k)
            /\ StartShifted(module, orig, k)
            /\ SameFunctions(module, orig, k)

(***************************************************************************)
(* Export normalisation: export_table and update_memories.                 *)
(***************************************************************************)
TABLE_STR == "table"
WASM_HEAP_MEMORY_NAME == "memory"
WASM_HEAP_BYTEMAP_MEMORY_NAME == "bytemap_memory"
STABLE_MEMORY_NAME == "stable_memory"
STABLE_BYTEMAP_MEMORY_NAME == "stable_memory_bytemap"

\* The sizes of the injected memories are kept symbolic.
\* MAX_WASM_MEMORY_IN_BYTES / PAGE_SIZE / WASM_PAGE_SIZE: 4 GiB of 32-bit
\* memory, 4 KiB OS pages, 64 KiB Wasm pages.
BYTEMAP_SIZE_IN_WASM_PAGES == 16
MAX_STABLE_MEMORY_IN_WASM_PAGES == "MAX_STABLE_MEMORY_IN_WASM_PAGES"
STABLE_BYTEMAP_SIZE_IN_WASM_PAGES == "STABLE_BYTEMAP_SIZE_IN_WASM_PAGES"

MemoryType(memory64, initial, maximum) ==
    [memory64 |-> memory64, shared |-> FALSE, initial |-> initial, maximum |-> maximum]

\* Every export of the given kind renamed; the others as they are.
RenameKind(exports, kind, name) ==
    [e \in DOMAIN exports |->
        IF exports[e].kind = kind THEN [exports[e] EXCEPT !.name = name] ELSE exports[e]]

HasExportOfKind(exports, kind) == \E e \in DOMAIN exports : exports[e].kind = kind

export_table_always_pushes(m) ==
    [m EXCEPT !.exports =
        IF m.tables # <<>>
        THEN Append(RenameKind(m.exports, "Table", TABLE_STR), Export(TABLE_STR, "Table", 0))
        ELSE RenameKind(m.exports, "Table", TABLE_STR)]

export_table_pushes_without_table(m) ==
    [m EXCEPT !.exports =
        IF ~HasExportOfKind(m.exports, "Table")
        THEN Append(m.exports, Export(TABLE_STR, "Table", 0))
        ELSE RenameKind(m.exports, "Table", TABLE_STR)]

export_table(m) ==
    LET table_already_exported == HasExportOfKind(m.exports, "Table")
        renamed == RenameKind(m.exports, "Table", TABLE_STR)
    IN  [m EXCEPT !.exports =
            IF ~table_already_exported /\ m.tables # <<>>
            THEN Append(renamed, Export(TABLE_STR, "Table", 0))
            ELSE renamed]

\* update_memories returns the module and the index of the injected stable
\* memory (0 when wasm-native stable memory is disabled).
update_memories(m, write_barrier, wasm_native_stable_memory) ==
    LET memory_already_exported == HasExportOfKind(m.exports, "Memory")
        renamed == RenameKind(m.exports, "Memory", WASM_HEAP_MEMORY_NAME)
        m1 == [m EXCEPT !.exports =
                  IF ~memory_already_exported /\ m.memories # <<>>
                  THEN Append(renamed, Export(WASM_HEAP_MEMORY_NAME, "Memory", 0))
                  ELSE renamed]
        m2 == IF write_barrier = "Enabled" /\ m1.memories # <<>>
              THEN [m1 EXCEPT
                      !.memories = Append(@, MemoryType(FALSE, BYTEMAP_SIZE_IN_WASM_PAGES,
                                                        <<BYTEMAP_SIZE_IN_WASM_PAGES>>)),
                      !.exports = Append(@, Export(WASM_HEAP_BYTEMAP_MEMORY_NAME, "Memory", 1))]
              ELSE m1
        stable_index == Len(m2.memories)
        m3 == IF wasm_native_stable_memory = "Enabled"
              THEN [m2 EXCEPT
                      !.memories = @ \o
                          <<MemoryType(TRUE, 0, <<MAX_STABLE_MEMORY_IN_WASM_PAGES>>),
                            MemoryType(FALSE, STABLE_BYTEMAP_SIZE_IN_WASM_PAGES,
                                       <<STABLE_BYTEMAP_SIZE_IN_WASM_PAGES>>)>>,
                      !.exports = @ \o
                          <<Export(STABLE_MEMORY_NAME, "Memory", stable_index),
                            Export(STABLE_BYTEMAP_MEMORY_NAME, "Memory", stable_index + 1)>>]
              ELSE m2
    IN  [module |-> m3,
         stable_index |-> IF wasm_native_stable_memory = "Enabled" THEN stable_index ELSE 0]

(***************************************************************************)
(* SpecExport: export_table and update_memories, each run up to MaxPasses  *)
(* times in any order, on modules with up to MaxExports exports.           *)
(***************************************************************************)
ExportEntries ==
    {Export("tbl", "Table", 0), Export("table", "Table", 0), Export("table", "Func", 0),
     Export("mem", "Memory", 0), Export("memory", "Memory", 0), Export("g", "Global", 0)}

DistinctNames(exports) ==
    \A i, j \in DOMAIN exports : i # j => exports[i].name # exports[j].name

\* Where the table and the memory of a module may come from.
TableShapes == {"none", "defined", "imported"}
MemoryShapes == {"none", "defined"}

ExportModule(exports, table, memory) ==
    [EmptyModule EXCEPT
        !.types = <<FuncType(<<>>, <<>>)>>,
        !.imports = IF table = "imported"
                    THEN <<Import("env", "t", [kind |-> "Table", element_type |-> "FuncRef"])>>
                    ELSE <<>>,
        !.functions = <<0>>,
        !.code_sections = <<Body(<<>>, <<Op("End")>>)>>,
        !.globals = <<Global("I32", FALSE, [op |-> "I32Const", value |-> 0])>>,
        !.tables = IF table = "defined" THEN <<[element_type |-> "FuncRef", initial |-> 1]>> ELSE <<>>,
        !.memories = IF memory = "defined" THEN <<MemoryType(FALSE, 1, <<>>)>> ELSE <<>>,
        !.exports = exports]

\* An export refers to an item the module has.
ExportsResolve(exports, table, memory) ==
    /\ HasExportOfKind(exports, "Table") => table # "none"
    /\ HasExportOfKind(exports, "Memory") => memory # "none"

InitExport ==
    /\ \E ex \in {e \in SeqsUpTo(ExportEntries, MaxExports) : DistinctNames(e)},
          t \in TableShapes, me \in MemoryShapes :
        /\ ExportsResolve(ex, t, me)
        /\ module = ExportModule(ex, t, me)
    /\ orig = module
    /\ applied = <<>>
    /\ flags \in Flags
    /\ out = <<>>
    /\ machine = IdleMachine
    /\ ghost = NoGhost

ExportTable ==
    /\ Len(applied) < MaxPasses
    /\ module' = export_table(module)
    /\ orig' = module
    /\ applied' = Append(applied, "export_table")
    /\ UNCHANGED <<flags, out, machine, ghost>>

UpdateMemories ==
    /\ Len(applied) < MaxPasses
    /\ LET r == update_memories(module, flags.write_barrier, flags.wasm_native_stable_memory)
       IN  /\ module' = r.module
           /\ out' = <<r.stable_index>>
    /\ orig' = module
    /\ applied' = Append(applied, "update_memories")
    /\ UNCHANGED <<flags, machine, ghost>>

NextExport == ExportTable \/ UpdateMemories

SpecExport == InitExport /\ [][NextExport]_vars

BothDisabled == flags.write_barrier = "Disabled" /\ flags.wasm_native_stable_memory = "Disabled"

Ran(pass) == \E i \in DOMAIN applied : applied[i] = pass

\* C8: export normalisation is idempotent: running export_table on a module
\* export_table already ran on leaves the export entries (names, kinds,
\* indices, order) as they are, and so does the memory-export step of
\* update_memories with both feature flags disabled.
C8_ExportNormalisationIdempotent ==
    [][/\ (Ran("export_table") /\ Last(applied') = "export_table"
              => module'.exports = module.exports)
       /\ (Ran("update_memories") /\ Last(applied') = "update_memories" /\ BothDisabled
              => module'.exports = module.exports)]_vars

\* A second export_table pass on a module whose table export the first pass
\* renamed or added.
C8_Witness ==
    /\ Len(applied) >= 2
    /\ applied[Len(applied)] = "export_table"
    /\ applied[Len(applied) - 1] = "export_table"
    /\ HasExportOfKind(module.exports, "Table")

i32_as_usize(value) == [high |-> IF value < 0 THEN 1 ELSE 0, low |-> value]

WasmDeserializeError(message) == [kind |-> "WasmDeserializeError", message |-> message]

COMPLEX_INIT_MESSAGE == "complex initialization expressions for data segments are not supported!"
NO_OFFSET_MESSAGE == "no offset found for the data segment"

Ok(value) == [ok |-> TRUE, value |-> value]
Err(error) == [ok |-> FALSE, error |-> error]

\* The closure get_data maps over the segments.
segment_offset(segment) ==
    IF segment.kind.tag = "Active"
    THEN IF segment.kind.offset_expr.op = "I32Const"
         THEN Ok(<<i32_as_usize(segment.kind.offset_expr.value), segment.data>>)
         ELSE Err(WasmDeserializeError(COMPLEX_INIT_MESSAGE))
    ELSE Err(WasmDeserializeError(NO_OFFSET_MESSAGE))

\* collect::<Result<_, _>>(): the pairs in order, or the first error, at
\* which the iteration stops.
RECURSIVE collect_result(_, _)
collect_result(data_section, acc) ==
    IF data_section = <<>> THEN Ok(acc)
    ELSE LET item == segment_offset(Head(data_section))
         IN  IF item.ok THEN collect_result(Tail(data_section), Append(acc, item.value))
             ELSE item

get_data_always_clears(data_section) ==
    [result |-> collect_result(data_section, <<>>), data_section |-> <<>>]

\* get_data returns the result and leaves the data section as given here.
get_data(data_section) ==
    LET res == collect_result(data_section, <<>>)
    IN  [result |-> res, data_section |-> IF res.ok THEN <<>> ELSE data_section]

(***************************************************************************)
(* SpecData: get_data on data sections of up to MaxSegments segments.      *)
(***************************************************************************)
Active(offset_expr) == [tag |-> "Active", memory_index |-> 0, offset_expr |-> offset_expr]
Passive == [tag |-> "Passive"]

DataSegment(kind, data) == [kind |-> kind, data |-> data]

I32Const(value) == [op |-> "I32Const", value |-> value]

SegmentKinds ==
    {Active(I32Const(v)) : v \in {0, 65535, -1}}
    \cup {Active([op |-> "GlobalGet", global_index |-> 0]),
          Active([op |-> "I64Const", value |-> 0]),
          Passive}

SegmentBytes == {<<>>, <<7>>, <<1, 2>>}

DataSegments == {DataSegment(k, d) : k \in SegmentKinds, d \in SegmentBytes}

InitData ==
    /\ \E data \in SeqsUpTo(DataSegments, MaxSegments) :
        module = [ExportModule(<<>>, "none", "defined") EXCEPT !.data = data]
    /\ orig = module
    /\ applied = <<>>
    /\ flags = [write_barrier |-> "Disabled", wasm_native_stable_memory |-> "Disabled"]
    /\ out = <<>>
    /\ machine = IdleMachine
    /\ ghost = NoGhost

GetData ==
    /\ applied = <<>>
    /\ LET r == get_data(module.data)
       IN  /\ module' = [module EXCEPT !.data = r.data_section]
           /\ out' = <<r.result>>
    /\ orig' = module
    /\ applied' = <<"get_data">>
    /\ UNCHANGED <<flags, machine, ghost>>

NextData == GetData

SpecData == InitData /\ [][NextData]_vars

IsConstOffsetSegment(segment) ==
    segment.kind.tag = "Active" /\ segment.kind.offset_expr.op = "I32Const"

\* C10: get_data succeeds iff every segment is active with a single
\* i32.const offset; on success it returns the (offset, bytes) pairs in
\* segment order and leaves the data section empty; otherwise it returns a
\* WasmDeserializeError, that of the first offending segment, and leaves the
\* data section unchanged.
C10_GetDataContract ==
    applied = <<"get_data">> =>
        LET res == out[1]
            good == {i \in DOMAIN orig.data : IsConstOffsetSegment(orig.data[i])}
            bad == DOMAIN orig.data \ good
        IN  /\ res.ok <=> bad = {}
            /\ res.ok =>
                /\ Len(res.value) = Len(orig.data)
                /\ \A i \in DOMAIN orig.data :
                    /\ res.value[i][1].low = orig.data[i].kind.offset_expr.value
                    /\ res.value[i][1].high = 0 <=> orig.data[i].kind.offset_expr.value >= 0
                    /\ res.value[i][2] = orig.data[i].data
                /\ module.data = <<>>
            /\ ~res.ok =>
                /\ res.error.kind = "WasmDeserializeError"
                /\ LET first == CHOOSE i \in bad : \A j \in bad : i <= j
                   IN  res.error.message =
                           IF orig.data[first].kind.tag = "Active"
                           THEN COMPLEX_INIT_MESSAGE ELSE NO_OFFSET_MESSAGE
                /\ module.data = orig.data

\* get_data failed on a section whose first segment is fine and whose
\* second is passive, with a computed-offset segment behind it.
C10_Witness ==
    /\ applied = <<"get_data">>
    /\ Len(orig.data) >= 2
    /\ IsConstOffsetSegment(orig.data[1])
    /\ orig.data[2].kind.tag = "Passive"
    /\ ~out[1].ok
    /\ module.data = orig.data

(***************************************************************************)
(* Metering: the cost analysis (injections) and the code generator         *)
(* (inject_metering).  Positions are zero-based as in the source.          *)
(***************************************************************************)
instruction_to_cost(i) ==
    IF i.op \in {"Block", "Else", "End", "Loop"} THEN 0 ELSE 1

StaticCost(scope, cost) == [kind |-> "StaticCost", scope |-> scope, cost |-> cost]
DynamicCost == [kind |-> "DynamicCost"]

increment_cost_unchanged(cost_detail, additional_cost) == cost_detail

increment_cost(cost_detail, additional_cost) ==
    IF cost_detail.kind = "StaticCost"
    THEN [cost_detail EXCEPT !.cost = @ + additional_cost]
    ELSE cost_detail

InjectionPoint(cost_detail, position) == [cost_detail |-> cost_detail, position |-> position]

new_static_cost(position, scope) == InjectionPoint(StaticCost(scope, 0), position)

new_dynamic_cost(position) == InjectionPoint(DynamicCost, position)

\* The instructions injections records as DynamicCost points.
DynamicCostOps == {"MemoryFill", "MemoryCopy", "MemoryInit", "TableCopy", "TableInit"}

\* The points left in the order the loop recorded them.
order_of_recording(res) == res

\* res.sort_by_key(|k| k.position): a stable sort.
RECURSIVE sort_by_position(_)
sort_by_position(res) ==
    IF res = <<>> THEN <<>>
    ELSE LET sorted == sort_by_position(SubSeq(res, 1, Len(res) - 1))
             x == res[Len(res)]
             n == Cardinality({j \in DOMAIN sorted : sorted[j].position <= x.position})
         IN  SubSeq(sorted, 1, n) \o <<x>> \o SubSeq(sorted, n + 1, Len(sorted))

\* The loop of injections from `position` on, with the points recorded so
\* far (res), the pending points of the enclosing blocks (stack) and the
\* point of the current block (curr).
RECURSIVE injections_loop(_, _, _, _, _)
injections_loop(code, position, res, stack, curr) ==
    IF position >= Len(code) THEN res
    ELSE LET i == code[position + 1]
             c == [curr EXCEPT !.cost_detail = increment_cost(@, instruction_to_cost(i))]
         IN  CASE i.op = "Loop" ->
                    injections_loop(code, position + 1, res, Append(stack, c),
                                    new_static_cost(position + 1, "ReentrantBlockStart"))
               [] i.op \in {"If", "Block"} ->
                    injections_loop(code, position + 1, res, Append(stack, c),
                                    new_static_cost(position + 1, "NonReentrantBlockStart"))
               [] i.op \in {"Else", "Br", "BrIf", "BrTable"} ->
                    injections_loop(code, position + 1, Append(res, c), stack,
                                    new_static_cost(position + 1, "BlockEnd"))
               [] i.op = "End" ->
                    IF stack = <<>> THEN Append(res, c)
                    ELSE injections_loop(code, position + 1, Append(res, c),
                                         SubSeq(stack, 1, Len(stack) - 1), stack[Len(stack)])
               [] i.op \in DynamicCostOps ->
                    injections_loop(code, position + 1, Append(res, new_dynamic_cost(position)),
                                    stack, c)
               [] OTHER -> injections_loop(code, position + 1, res, stack, c)

injections(code) ==
    sort_by_position(
        injections_loop(code, 0, <<>>, <<>>, new_static_cost(0, "ReentrantBlockStart")))

ExportModuleData(counter_ix, dirty_ix, decr_fn, clean_fn, start_fn_ix) ==
    [instructions_counter_ix |-> counter_ix,
     dirty_pages_counter_ix |-> dirty_ix,
     decr_instruction_counter_fn |-> decr_fn,
     count_clean_pages_fn |-> clean_fn,
     start_fn_ix |-> start_fn_ix]

GlobalGet(global_index) == [op |-> "GlobalGet", global_index |-> global_index]
GlobalSet(global_index) == [op |-> "GlobalSet", global_index |-> global_index]
LocalGet(local_index) == [op |-> "LocalGet", local_index |-> local_index]
LocalSet(local_index) == [op |-> "LocalSet", local_index |-> local_index]
LocalTee(local_index) == [op |-> "LocalTee", local_index |-> local_index]
I64Const(value) == [op |-> "I64Const", value |-> value]
If == [op |-> "If", blockty |-> "Empty"]
End == [op |-> "End"]

\* A filter that keeps the reentrant block starts only.
point_is_kept_reentrant_only(point) ==
    point.cost_detail.kind = "StaticCost" => point.cost_detail.scope = "ReentrantBlockStart"

\* A filter that drops every static point of cost 0, the reentrant ones too.
point_is_kept_positive_cost(point) ==
    point.cost_detail.kind = "StaticCost" => point.cost_detail.cost > 0

\* The filter of inject_metering on the points.
point_is_kept(point) ==
    IF point.cost_detail.kind = "StaticCost"
    THEN point.cost_detail.scope = "ReentrantBlockStart" \/ point.cost_detail.cost > 0
    ELSE TRUE

\* A decrement whose overflow check lets the counter fall to -3.
point_instructions_lenient(point, export_data_module) ==
    IF point.cost_detail.kind = "StaticCost"
    THEN <<GlobalGet(export_data_module.instructions_counter_ix),
           I64Const(point.cost_detail.cost),
           Op("I64Sub"),
           GlobalSet(export_data_module.instructions_counter_ix)>>
         \o (IF point.cost_detail.scope = "ReentrantBlockStart"
             THEN <<GlobalGet(export_data_module.instructions_counter_ix),
                    I64Const(-3),
                    Op("I64LtS"),
                    If,
                    Call(OutOfInstructions),
                    End>>
             ELSE <<>>)
    ELSE <<Call(export_data_module.decr_instruction_counter_fn)>>

\* What inject_metering emits for one point.
point_instructions(point, export_data_module) ==
    IF point.cost_detail.kind = "StaticCost"
    THEN <<GlobalGet(export_data_module.instructions_counter_ix),
           I64Const(point.cost_detail.cost),
           Op("I64Sub"),
           GlobalSet(export_data_module.instructions_counter_ix)>>
         \o (IF point.cost_detail.scope = "ReentrantBlockStart"
             THEN <<GlobalGet(export_data_module.instructions_counter_ix),
                    I64Const(0),
                    Op("I64LtS"),
                    If,
                    Call(OutOfInstructions),
                    End>>
             ELSE <<>>)
    ELSE <<Call(export_data_module.decr_instruction_counter_fn)>>

\* A splicing loop that puts the instructions of a point after the
\* instruction at its position.
RECURSIVE metering_loop_after(_, _, _, _, _, _)
metering_loop_after(orig_elems, points, k, last_injection_position, elems, export_data_module) ==
    IF k > Len(points)
    THEN elems \o SubSeq(orig_elems, last_injection_position + 1, Len(orig_elems))
    ELSE metering_loop_after(orig_elems, points, k + 1, points[k].position + 1,
                             elems \o SubSeq(orig_elems, last_injection_position + 1,
                                             points[k].position + 1)
                                   \o point_instructions(points[k], export_data_module),
                             export_data_module)

\* The splicing loop of inject_metering from the k-th kept point on.
RECURSIVE metering_loop(_, _, _, _, _, _)
metering_loop(orig_elems, points, k, last_injection_position, elems, export_data_module) ==
    IF k > Len(points)
    THEN elems \o SubSeq(orig_elems, last_injection_position + 1, Len(orig_elems))
    ELSE metering_loop(orig_elems, points, k + 1, points[k].position,
                       elems \o SubSeq(orig_elems, last_injection_position + 1, points[k].position)
                             \o point_instructions(points[k], export_data_module),
                       export_data_module)

inject_metering(code, export_data_module) ==
    metering_loop(code, SelectSeq(injections(code), point_is_kept), 1, 0, <<>>,
                  export_data_module)

(***************************************************************************)
(* The write barrier and the growth guard.                                 *)
(***************************************************************************)
PAGE_SIZE == 4096

\* PAGE_SIZE.trailing_zeros()
page_size_shift == 12

tracking_mem_idx == 1

MemArg(offset, memory) == [align |-> 0, max_align |-> 0, offset |-> offset, memory |-> memory]

\* `offset as i32` of a u64: the low 32 bits, read as a signed number.
\* (Written for offsets below 2^32, the range of a 32-bit memory's memarg.)
u64_as_i32(offset) ==
    IF offset <= 2147483647 THEN offset ELSE ((offset - 2147483647) - 2147483647) - 2

I32Store8(memarg) == [op |-> "I32Store8", memarg |-> memarg]

write_barrier_instructions(offset, val_arg_idx, addr_arg_idx) ==
    IF offset % PAGE_SIZE = 0
    THEN <<LocalSet(val_arg_idx),
           LocalTee(addr_arg_idx),
           I32Const(page_size_shift),
           Op("I32ShrU"),
           I32Const(1),
           I32Store8(MemArg(offset \div PAGE_SIZE, tracking_mem_idx)),
           LocalGet(addr_arg_idx),
           LocalGet(val_arg_idx)>>
    ELSE <<LocalSet(val_arg_idx),
           LocalTee(addr_arg_idx),
           I32Const(u64_as_i32(offset)),
           Op("I32Add"),
           I32Const(page_size_shift),
           Op("I32ShrU"),
           I32Const(1),
           I32Store8(MemArg(0, tracking_mem_idx)),
           LocalGet(addr_arg_idx),
           LocalGet(val_arg_idx)>>

I32StoreOps == {"I32Store", "I32Store8", "I32Store16"}
I64StoreOps == {"I64Store", "I64Store8", "I64Store16", "I64Store32"}
StoreOps == I32StoreOps \cup I64StoreOps \cup {"F32Store", "F64Store"}

\* The zero-based positions of the instructions whose op is in ops, in
\* increasing order.
RECURSIVE positions_of(_, _, _)
positions_of(instructions, ops, idx) ==
    IF idx >= Len(instructions) THEN <<>>
    ELSE (IF instructions[idx + 1].op \in ops THEN <<idx>> ELSE <<>>)
         \o positions_of(instructions, ops, idx + 1)

\* func_body.locals.iter().map(|x| x.0).sum()
RECURSIVE n_locals(_)
n_locals(locals) == IF locals = <<>> THEN 0 ELSE locals[1][1] + n_locals(Tail(locals))

\* The splicing loop of inject_mem_barrier from the k-th point on.
RECURSIVE mem_barrier_loop(_, _, _, _, _, _)
mem_barrier_loop(orig_elems, injection_points, k, last_injection_position, elems, arg_i32_addr_idx) ==
    IF k > Len(injection_points)
    THEN elems \o SubSeq(orig_elems, last_injection_position + 1, Len(orig_elems))
    ELSE LET point == injection_points[k]
             mem_instr == orig_elems[point + 1]
             val_idx == CASE mem_instr.op \in I32StoreOps -> arg_i32_addr_idx + 1
                          [] mem_instr.op \in I64StoreOps -> arg_i32_addr_idx + 2
                          [] mem_instr.op = "F32Store" -> arg_i32_addr_idx + 3
                          [] mem_instr.op = "F64Store" -> arg_i32_addr_idx + 4
         IN  mem_barrier_loop(orig_elems, injection_points, k + 1, point + 1,
                 elems \o SubSeq(orig_elems, last_injection_position + 1, point)
                       \o write_barrier_instructions(mem_instr.memarg.offset, val_idx, arg_i32_addr_idx)
                       \o <<mem_instr>>,
                 arg_i32_addr_idx)

inject_mem_barrier(func_body, func_type) ==
    LET injection_points == positions_of(func_body.instructions, StoreOps, 0)
        arg_i32_addr_idx == Len(func_type.params) + n_locals(func_body.locals)
    IN  IF injection_points # <<>>
        THEN Body(func_body.locals \o <<<<2, "I32">>, <<1, "I64">>, <<1, "F32">>, <<1, "F64">>>>,
                  mem_barrier_loop(func_body.instructions, injection_points, 1, 0, <<>>,
                                   arg_i32_addr_idx))
        ELSE func_body

\* The splicing loop of inject_update_available_memory.
RECURSIVE update_available_memory_loop(_, _, _, _, _, _)
update_available_memory_loop(orig_elems, injection_points, k, last_injection_position, elems, memory_local_ix) ==
    IF k > Len(injection_points)
    THEN elems \o SubSeq(orig_elems, last_injection_position + 1, Len(orig_elems))
    ELSE LET point == injection_points[k]
         IN  update_available_memory_loop(orig_elems, injection_points, k + 1, point + 1,
                 elems \o SubSeq(orig_elems, last_injection_position + 1, point)
                       \o <<LocalTee(memory_local_ix),
                            orig_elems[point + 1],
                            LocalGet(memory_local_ix),
                            Call(UpdateAvailableMemory)>>,
                 memory_local_ix)

\* A growth guard that leaves every memory.grow as it is.
inject_update_available_memory_skips(func_body, func_type) == func_body

\* A growth guard that takes the local behind the parameters for its
\* scratch local, whatever locals the function has.
inject_update_available_memory_first_local(func_body, func_type) ==
    LET injection_points == positions_of(func_body.instructions, {"MemoryGrow"}, 0)
        memory_local_ix == Len(func_type.params)
    IN  IF injection_points # <<>>
        THEN Body(Append(func_body.locals, <<1, "I32">>),
                  update_available_memory_loop(func_body.instructions, injection_points, 1, 0,
                                               <<>>, memory_local_ix))
        ELSE func_body

inject_update_available_memory(func_body, func_type) ==
    LET injection_points == positions_of(func_body.instructions, {"MemoryGrow"}, 0)
        memory_local_ix == Len(func_type.params) + n_locals(func_body.locals)
    IN  IF injection_points # <<>>
        THEN Body(Append(func_body.locals, <<1, "I32">>),
                  update_available_memory_loop(func_body.instructions, injection_points, 1, 0,
                                               <<>>, memory_local_ix))
        ELSE func_body

(***************************************************************************)
(* Global exports, the support functions and the pipeline of instrument.   *)
(***************************************************************************)
CANISTER_COUNTER_INSTRUCTIONS_STR == "canister counter_instructions"
CANISTER_COUNTER_DIRTY_PAGES_STR == "canister counter_dirty_pages"
CANISTER_START_STR == "canister_start"

\* The indices that the Global exports of a module name.
ExportedGlobalIndices(m) ==
    {m.exports[e].index : e \in {x \in DOMAIN m.exports : m.exports[x].kind = "Global"}}

\* mutable_exported[export.index as usize] is out of bounds.
export_mutable_globals_panics(m) ==
    \E ix \in ExportedGlobalIndices(m) : ix >= Len(m.globals)

\* The exports pushed for the entries ix.. of mutable_exported.
RECURSIVE mutable_global_exports(_, _, _)
mutable_global_exports(globals, exported, ix) ==
    IF ix >= Len(globals) THEN <<>>
    ELSE (IF globals[ix + 1].ty.mutable /\ ix \notin exported
          THEN <<Export("__persistent_mutable_global_" \o ToString(ix), "Global", ix)>>
          ELSE <<>>)
         \o mutable_global_exports(globals, exported, ix + 1)

export_mutable_globals(m) ==
    [m EXCEPT !.exports = @ \o mutable_global_exports(m.globals, ExportedGlobalIndices(m), 0)]

\* A decrement helper that returns 0 in place of its argument.
decr_instruction_counter_body_returning_zero(export_module_data) ==
    Body(<<>>,
         <<GlobalGet(export_module_data.instructions_counter_ix),
           LocalGet(0),
           Op("I64ExtendI32U"),
           Op("I64Sub"),
           GlobalSet(export_module_data.instructions_counter_ix),
           GlobalGet(export_module_data.instructions_counter_ix),
           I64Const(0),
           Op("I64LtS"),
           If,
           Call(OutOfInstructions),
           End,
           I32Const(0),
           End>>)

\* The function that decrements the instruction counter by its argument.
decr_instruction_counter_body(export_module_data) ==
    Body(<<>>,
         <<GlobalGet(export_module_data.instructions_counter_ix),
           LocalGet(0),
           Op("I64ExtendI32U"),
           Op("I64Sub"),
           GlobalSet(export_module_data.instructions_counter_ix),
           GlobalGet(export_module_data.instructions_counter_ix),
           I64Const(0),
           Op("I64LtS"),
           If,
           Call(OutOfInstructions),
           End,
           LocalGet(0),
           End>>)

\* The function that counts the clean pages of a range (it = 2, acc = 3).
count_clean_pages_body(stable_memory_bytemap_index) ==
    Body(<<<<2, "I32">>>>,
         <<I32Const(0), LocalSet(3), LocalGet(0), LocalSet(2),
           [op |-> "Loop", blockty |-> "Empty"],
           LocalGet(2),
           [op |-> "I32Load8U", memarg |-> MemArg(0, stable_memory_bytemap_index)],
           LocalGet(3), Op("I32Add"), LocalSet(3),
           LocalGet(2), I32Const(1), Op("I32Add"), LocalTee(2),
           LocalGet(1), Op("I32LtU"),
           [op |-> "BrIf", relative_depth |-> 0],
           End,
           LocalGet(1), LocalGet(0), Op("I32Sub"), LocalGet(3), Op("I32Sub"),
           End>>)

export_additional_symbols(m, export_module_data, wasm_native_stable_memory, stable_memory_bytemap_index) ==
    LET stable == wasm_native_stable_memory = "Enabled"
        decr == add_type(m.types, FuncType(<<"I32">>, <<"I32">>))
        clean == add_type(decr.types, FuncType(<<"I32", "I32">>, <<"I32">>))
        counter == Global("I64", TRUE, I64Const(0))
    IN  [m EXCEPT
            !.types = IF stable THEN clean.types ELSE decr.types,
            !.functions = @ \o <<decr.idx>> \o (IF stable THEN <<clean.idx>> ELSE <<>>),
            !.code_sections = @ \o <<decr_instruction_counter_body(export_module_data)>>
                \o (IF stable THEN <<count_clean_pages_body(stable_memory_bytemap_index)>> ELSE <<>>),
            !.exports = @
                \o <<Export(CANISTER_COUNTER_INSTRUCTIONS_STR, "Global",
                            export_module_data.instructions_counter_ix)>>
                \o [j \in DOMAIN export_module_data.dirty_pages_counter_ix |->
                        Export(CANISTER_COUNTER_DIRTY_PAGES_STR, "Global",
                               export_module_data.dirty_pages_counter_ix[j])]
                \o [j \in DOMAIN export_module_data.start_fn_ix |->
                        Export(CANISTER_START_STR, "Func", export_module_data.start_fn_ix[j])],
            !.globals = @ \o <<counter>> \o (IF stable THEN <<counter>> ELSE <<>>)]

GlobalImports(m) == SelectSeq(m.imports, LAMBDA imp : imp.ty.kind = "Global")

\* Export Metadata whose start index is read once the start section is
\* cleared.
export_module_data_of_cleared_start(m, wasm_native_stable_memory) ==
    LET num_functions == Len(m.functions) + Len(FuncImports(m))
        num_globals == Len(m.globals) + Len(GlobalImports(m))
        stable == wasm_native_stable_memory = "Enabled"
    IN  ExportModuleData(num_globals,
                         IF stable THEN <<num_globals + 1>> ELSE <<>>,
                         num_functions,
                         IF stable THEN <<num_functions + 1>> ELSE <<>>,
                         <<>>)

\* Export Metadata that counts the locally defined functions and globals
\* only.
export_module_data_of_local_items(m, wasm_native_stable_memory) ==
    LET num_functions == Len(m.functions)
        num_globals == Len(m.globals)
        stable == wasm_native_stable_memory = "Enabled"
    IN  ExportModuleData(num_globals,
                         IF stable THEN <<num_globals + 1>> ELSE <<>>,
                         num_functions,
                         IF stable THEN <<num_functions + 1>> ELSE <<>>,
                         m.start)

\* The Export Metadata instrument computes after the normalisation passes.
export_module_data_of(m, wasm_native_stable_memory) ==
    LET num_functions == Len(m.functions) + Len(FuncImports(m))
        num_globals == Len(m.globals) + Len(GlobalImports(m))
        stable == wasm_native_stable_memory = "Enabled"
    IN  ExportModuleData(num_globals,
                         IF stable THEN <<num_globals + 1>> ELSE <<>>,
                         num_functions,
                         IF stable THEN <<num_functions + 1>> ELSE <<>>,
                         m.start)

\* The two per-function passes of instrument after metering.
inject_function_passes(func_body, func_type, write_barrier) ==
    LET guarded == inject_update_available_memory(func_body, func_type)
    IN  IF write_barrier = "Enabled" THEN inject_mem_barrier(guarded, func_type) ELSE guarded

\* instrument up to and including export_additional_symbols: the module,
\* the Export Metadata and the stable memory index.
instrument_passes(m, write_barrier, wasm_native_stable_memory) ==
    LET m1 == inject_helper_functions(m, wasm_native_stable_memory)
        m2 == export_table(m1)
        um == update_memories(m2, write_barrier, wasm_native_stable_memory)
        m3 == export_mutable_globals(um.module)
        emd == export_module_data_of(m3, wasm_native_stable_memory)
        m4 == [m3 EXCEPT !.start = <<>>]
        m5 == [m4 EXCEPT !.code_sections =
                  [b \in DOMAIN @ |->
                      [@[b] EXCEPT !.instructions = inject_metering(@, emd)]]]
        m6 == [m5 EXCEPT !.code_sections =
                  [b \in DOMAIN @ |->
                      inject_function_passes(@[b], m5.types[m5.functions[b] + 1], write_barrier)]]
        m7 == export_additional_symbols(m6, emd, wasm_native_stable_memory, um.stable_index + 1)
    IN  [module |-> m7, export_module_data |-> emd, stable_memory_index |-> um.stable_index]

(***************************************************************************)
(* The engine: a small-step interpreter of the instructions the passes     *)
(* emit and of the instructions of the programs below.  i32 values are     *)
(* signed numbers in -2^31 .. 2^31-1; the i64 counter stays within 2^33 of *)
(* zero.  A byte address of a memory is a                                  *)
(* pair [page, off] of an OS page and an offset in it, so that 33-bit      *)
(* effective addresses are exact.                                          *)
(*                                                                         *)
(* An instruction of an original body carries a field pos, its position in *)
(* that body.  It is a history annotation: no pass reads it, the passes    *)
(* copy original instructions as they are, and injected instructions have  *)
(* none.                                                                   *)
(***************************************************************************)
WASM_PAGE_SIZE == 65536

RECURSIVE Pow2(_)
Pow2(n) == IF n = 0 THEN 1 ELSE 2 * Pow2(n - 1)

\* i32.add: addition modulo 2^32, by 16-bit halves.
i32_add(a, b) ==
    LET lo == (a % 65536) + (b % 65536)
        hi == (a \div 65536) + (b \div 65536) + (lo \div 65536)
    IN  (((hi + 32768) % 65536) - 32768) * 65536 + (lo % 65536)

\* i32.shr_u: the operand read as unsigned, shifted right by n mod 32; the
\* result has its top bit clear unless the shift is by 0.
i32_shr_u(a, n) ==
    LET k == n % 32
    IN  IF k = 0 \/ a >= 0 THEN a \div Pow2(k)
        ELSE ((a \div Pow2(k)) + Pow2(31 - k)) + Pow2(31 - k)

\* A value of 64 bits is an integer where the integers of the model checker
\* hold it (32 bits) and the pair of a quotient and a remainder by 2^30
\* where they do not; the text of a pair is longer than that of an integer.
i64_limb == Pow2(30)

is_wide(v) == Len(ToString(v)) > 11

i64_wide(v) == IF is_wide(v) THEN v ELSE [q |-> v \div i64_limb, r |-> v % i64_limb]

i64_narrow(w) == IF w.q \in -2..1 THEN w.q * i64_limb + w.r ELSE w

\* i64.sub, on values whose difference is within 64 bits.
i64_sub(a, b) ==
    LET x == i64_wide(a)
        y == i64_wide(b)
        d == x.r - y.r
    IN  i64_narrow([q |-> (x.q - y.q) + (d \div i64_limb), r |-> d % i64_limb])

\* i64.lt_s.
i64_lt_s(a, b) ==
    LET x == i64_wide(a)
        y == i64_wide(b)
    IN  x.q < y.q \/ (x.q = y.q /\ x.r < y.r)

\* i64.extend_i32_u: the operand read as unsigned.
i64_extend_i32_u(v) ==
    IF v >= 0 THEN v ELSE [q |-> 4 + (v \div i64_limb), r |-> v % i64_limb]

\* The OS page of the unsigned value of an i32.
u32_page(a) ==
    IF a >= 0 THEN a \div PAGE_SIZE ELSE (a \div PAGE_SIZE) + Pow2(32 - page_size_shift)

\* The effective address of a memory access: unsigned address plus offset,
\* without wrapping.
effective_address(addr, offset) ==
    LET o == (addr % PAGE_SIZE) + (offset % PAGE_SIZE)
    IN  [page |-> u32_page(addr) + (offset \div PAGE_SIZE) + (o \div PAGE_SIZE),
         off |-> o % PAGE_SIZE]

address_plus(ea, k) ==
    [page |-> ea.page + ((ea.off + k) \div PAGE_SIZE), off |-> (ea.off + k) % PAGE_SIZE]

\* Byte k of the little-endian encoding of a value.
le_byte(v, k) == IF k < 4 THEN (v \div Pow2(8 * k)) % 256 ELSE IF v < 0 THEN 255 ELSE 0

store_width(op) ==
    CASE op \in {"I32Store8", "I64Store8"} -> 1
      [] op \in {"I32Store16", "I64Store16"} -> 2
      [] op \in {"I32Store", "I64Store32", "F32Store"} -> 4
      [] op \in {"I64Store", "F64Store"} -> 8

\* A memory instance: its size in Wasm pages and the bytes written so far
\* (every other byte is 0).
memory_instance(memory_type) == [pages |-> memory_type.initial, cells |-> [a \in {} |-> 0]]

in_bounds(mem, ea, width) ==
    address_plus(ea, width - 1).page < mem.pages * (WASM_PAGE_SIZE \div PAGE_SIZE)

byte_at(mem, ea) == IF ea \in DOMAIN mem.cells THEN mem.cells[ea] ELSE 0

\* The memory after writing the low `width` bytes of v at ea.
write_bytes(mem, ea, width, v) ==
    [mem EXCEPT !.cells =
        [a \in DOMAIN @ \cup {address_plus(ea, k) : k \in 0..(width - 1)} |->
            IF \E k \in 0..(width - 1) : a = address_plus(ea, k)
            THEN le_byte(v, CHOOSE k \in 0..(width - 1) : a = address_plus(ea, k))
            ELSE @[a]]]

\* The memory after memory.fill of n bytes at d.
fill_bytes(mem, d, n, v) ==
    [mem EXCEPT !.cells =
        [a \in DOMAIN @ \cup {address_plus(d, k) : k \in 0..(n - 1)} |->
            IF \E k \in 0..(n - 1) : a = address_plus(d, k) THEN v % 256 ELSE @[a]]]

\* The value a constant initialiser gives a global.
global_instance(global) == global.init_expr.value

\* The body and the type of the locally defined function with index f.
body_of(m, f) == m.code_sections[f - Len(FuncImports(m)) + 1]

type_of(m, f) ==
    IF f < Len(FuncImports(m))
    THEN m.types[FuncImports(m)[f + 1].ty.index + 1]
    ELSE m.types[m.functions[f - Len(FuncImports(m)) + 1] + 1]

\* The position of the End that closes the block opened just before
\* position pos (depth counts the blocks opened since).
RECURSIVE match_end(_, _, _)
match_end(code, pos, depth) ==
    LET op == code[pos + 1].op
    IN  IF op = "End" /\ depth = 0 THEN pos
        ELSE match_end(code, pos + 1,
                       IF op \in {"Block", "Loop", "If"} THEN depth + 1
                       ELSE IF op = "End" THEN depth - 1 ELSE depth)

\* The position of the Else of the If whose body starts at pos, or of its
\* End when it has none.
RECURSIVE match_else(_, _, _)
match_else(code, pos, depth) ==
    LET op == code[pos + 1].op
    IN  IF op \in {"End", "Else"} /\ depth = 0 THEN pos
        ELSE match_else(code, pos + 1,
                        IF op \in {"Block", "Loop", "If"} THEN depth + 1
                        ELSE IF op = "End" THEN depth - 1 ELSE depth)

Label(kind, cont, height) == [kind |-> kind, cont |-> cont, height |-> height]

Frame(func, locals, base) ==
    [func |-> func, pc |-> 0, labels |-> <<>>, locals |-> locals, base |-> base]

\* The frame that runs, its code and the instruction it is at.
top == Last(machine.frames)
code == body_of(module, top.func).instructions
instr == code[top.pc + 1]

running(ops) == machine.status = "running" /\ instr.op \in ops

\* The machine with the running frame replaced, and with its pc moved on.
with_top(mc, frame) == [mc EXCEPT !.frames[Len(mc.frames)] = frame]

advance(mc) == [mc EXCEPT !.frames[Len(mc.frames)].pc = @ + 1]

push(mc, v) == [mc EXCEPT !.stack = Append(@, v)]

pop(mc, n) == [mc EXCEPT !.stack = SubSeq(@, 1, Len(@) - n)]

\* The n topmost values of the stack, the deepest first.
peek(mc, n) == SubSeq(mc.stack, Len(mc.stack) - n + 1, Len(mc.stack))

trap(mc) == [mc EXCEPT !.status = "trapped"]

\* Leaving the running function: its results go to the caller's stack.
return(mc) ==
    LET fr == Last(mc.frames)
        results == peek(mc, Len(type_of(module, fr.func).results))
        rest == SubSeq(mc.frames, 1, Len(mc.frames) - 1)
    IN  [mc EXCEPT !.frames = rest,
                   !.stack = SubSeq(mc.stack, 1, fr.base) \o results,
                   !.status = IF rest = <<>> THEN "returned" ELSE @]

\* A branch to the label at relative depth d of the running frame.
branch(mc, d) ==
    LET fr == Last(mc.frames)
        n == Len(fr.labels)
    IN  IF d >= n THEN return(mc)
        ELSE LET l == fr.labels[n - d]
             IN  [with_top(mc, [fr EXCEPT !.pc = l.cont,
                                          !.labels = SubSeq(@, 1, IF l.kind = "Loop" THEN n - d
                                                                  ELSE n - d - 1)])
                    EXCEPT !.stack = SubSeq(@, 1, l.height)]

(***************************************************************************)
(* The history of a run.  It is kept from the original instructions that   *)
(* execute (those with a pos) and from the injection points the cost       *)
(* analysis computed for the original body, never from the emitted code.   *)
(***************************************************************************)
pass_vars == <<module, orig, applied, flags, out>>

is_original(i) == "pos" \in DOMAIN i

static_points_at(points, p) ==
    SelectSeq(points, LAMBDA pt : pt.position = p /\ pt.cost_detail.kind = "StaticCost")

has_dynamic_at(points, p) ==
    \E k \in DOMAIN points : points[k].position = p /\ points[k].cost_detail.kind = "DynamicCost"

RECURSIVE sum_of_costs(_)
sum_of_costs(points) ==
    IF points = <<>> THEN 0 ELSE points[1].cost_detail.cost + sum_of_costs(Tail(points))

\* The static cost attached to the block that starts at position p.
static_cost_at(points, p) == sum_of_costs(static_points_at(points, p))

\* The static cost decremented without a check of the counter since the
\* counter was last checked, once control is past the points of position p:
\* the helper of a dynamic point checks, a reentrant block start checks, any
\* other block start does not.
chain_after(chain, points, p) ==
    LET static == static_points_at(points, p)
        after_dynamic == IF has_dynamic_at(points, p) THEN 0 ELSE chain
    IN  IF static = <<>> THEN after_dynamic
        ELSE IF static[1].cost_detail.scope = "ReentrantBlockStart" THEN 0
        ELSE after_dynamic + sum_of_costs(static)

observe(gh, i) ==
    IF is_original(i)
    THEN [gh EXCEPT !.executed = @ + instruction_to_cost(i),
                    !.entered = @ + static_cost_at(gh.points, i.pos),
                    !.chain = chain_after(@, gh.points, i.pos),
                    !.last = <<i>>]
    ELSE gh

(***************************************************************************)
(* The steps of the engine, one action per class of instruction.           *)
(***************************************************************************)
StepConst ==
    /\ running({"I32Const", "I64Const", "F32Const", "F64Const"})
    /\ machine' = advance(push(machine, instr.value))
    /\ ghost' = observe(ghost, instr)
    /\ UNCHANGED pass_vars

StepLocal ==
    /\ running({"LocalGet", "LocalSet", "LocalTee"})
    /\ LET ix == instr.local_index + 1
           v == Last(machine.stack)
       IN  machine' =
             CASE instr.op = "LocalGet" -> advance(push(machine, top.locals[ix]))
               [] instr.op = "LocalSet" ->
                    advance(pop(with_top(machine, [top EXCEPT !.locals[ix] = v]), 1))
               [] instr.op = "LocalTee" ->
                    advance(with_top(machine, [top EXCEPT !.locals[ix] = v]))
    /\ ghost' = observe(ghost, instr)
    /\ UNCHANGED pass_vars

StepGlobal ==
    /\ running({"GlobalGet", "GlobalSet"})
    /\ LET ix == instr.global_index + 1
       IN  machine' =
             IF instr.op = "GlobalGet" THEN advance(push(machine, machine.globals[ix]))
             ELSE advance(pop([machine EXCEPT !.globals[ix] = Last(machine.stack)], 1))
    /\ ghost' = observe(ghost, instr)
    /\ UNCHANGED pass_vars

StepNumeric ==
    /\ running({"I64Sub", "I64LtS", "I64ExtendI32U", "I32Add", "I32ShrU"})
    /\ LET b == Last(machine.stack)
           a == machine.stack[Len(machine.stack) - 1]
       IN  machine' =
             CASE instr.op = "I64ExtendI32U" -> advance(push(pop(machine, 1), i64_extend_i32_u(b)))
               [] instr.op = "I64Sub" -> advance(push(pop(machine, 2), i64_sub(a, b)))
               [] instr.op = "I64LtS" ->
                    advance(push(pop(machine, 2), IF i64_lt_s(a, b) THEN 1 ELSE 0))
               [] instr.op = "I32Add" -> advance(push(pop(machine, 2), i32_add(a, b)))
               [] instr.op = "I32ShrU" -> advance(push(pop(machine, 2), i32_shr_u(a, b)))
    /\ ghost' = observe(ghost, instr)
    /\ UNCHANGED pass_vars

StepNop ==
    /\ running({"Nop"})
    /\ machine' = advance(machine)
    /\ ghost' = observe(ghost, instr)
    /\ UNCHANGED pass_vars

StepBlock ==
    /\ running({"Block", "Loop"})
    /\ LET cont == IF instr.op = "Loop" THEN top.pc + 1 ELSE match_end(code, top.pc + 1, 0) + 1
           label == Label(instr.op, cont, Len(machine.stack))
       IN  machine' = advance(with_top(machine, [top EXCEPT !.labels = Append(@, label)]))
    /\ ghost' = observe(ghost, instr)
    /\ UNCHANGED pass_vars

StepIf ==
    /\ running({"If"})
    /\ LET popped == pop(machine, 1)
           else == match_else(code, top.pc + 1, 0)
           end == match_end(code, top.pc + 1, 0)
           label == Label("If", end + 1, Len(popped.stack))
           entered == [top EXCEPT !.labels = Append(@, label)]
       IN  machine' =
             IF Last(machine.stack) # 0 THEN advance(with_top(popped, entered))
             ELSE IF else # end THEN with_top(popped, [entered EXCEPT !.pc = else + 1])
             ELSE with_top(popped, [top EXCEPT !.pc = end + 1])
    /\ ghost' = observe(ghost, instr)
    /\ UNCHANGED pass_vars

\* Else is reached at the end of the first branch of an If: the If is left.
StepElse ==
    /\ running({"Else"})
    /\ machine' = with_top(machine, [top EXCEPT !.pc = Last(top.labels).cont,
                                                !.labels = SubSeq(@, 1, Len(@) - 1)])
    /\ ghost' = observe(ghost, instr)
    /\ UNCHANGED pass_vars

StepEnd ==
    /\ running({"End"})
    /\ machine' =
         IF top.labels # <<>>
         THEN advance(with_top(machine, [top EXCEPT !.labels = SubSeq(@, 1, Len(@) - 1)]))
         ELSE return(machine)
    /\ ghost' = observe(ghost, instr)
    /\ UNCHANGED pass_vars

StepBranch ==
    /\ running({"Br", "BrIf"})
    /\ machine' =
         IF instr.op = "Br" THEN branch(machine, instr.relative_depth)
         ELSE IF Last(machine.stack) # 0 THEN branch(pop(machine, 1), instr.relative_depth)
         ELSE advance(pop(machine, 1))
    /\ ghost' = observe(ghost, instr)
    /\ UNCHANGED pass_vars

StepReturn ==
    /\ running({"Return"})
    /\ machine' = return(machine)
    /\ ghost' = observe(ghost, instr)
    /\ UNCHANGED pass_vars

\* What the host may answer: the caller does not control it.  An answer
\* to update_available_memory is a veto (-1) or a value of the host's.
host_results(name) == IF name = UPDATE_MEMORY_FUN_NAME THEN {-1, 9} ELSE {0, 2}

RECURSIVE zeros(_)
zeros(n) == IF n = 0 THEN <<>> ELSE <<0>> \o zeros(n - 1)

\* A call of a locally defined function pushes a frame; a call of an import
\* goes to the host: out_of_instructions traps, any other import consumes
\* its arguments and answers with a value of its result type, if it has one.
StepCall ==
    /\ running({"Call"})
    /\ LET f == instr.function_index
           ty == type_of(module, f)
           args == peek(machine, Len(ty.params))
           popped == pop(machine, Len(ty.params))
       IN  IF f >= Len(FuncImports(module))
           THEN /\ machine' =
                     [advance(popped) EXCEPT !.frames =
                         Append(@, Frame(f, args \o zeros(n_locals(body_of(module, f).locals)),
                                         Len(popped.stack)))]
                /\ ghost' = observe(ghost, instr)
           ELSE LET imp == FuncImports(module)[f + 1]
                    traps == imp.module = INSTRUMENTED_FUN_MODULE
                             /\ imp.name = OUT_OF_INSTRUCTIONS_FUN_NAME
                IN  \E r \in IF traps THEN {0} ELSE host_results(imp.name) :
                      /\ machine' =
                           IF traps THEN trap(machine)
                           ELSE IF ty.results = <<>> THEN advance(popped)
                           ELSE advance(push(popped, r))
                      /\ ghost' = [observe(ghost, instr) EXCEPT !.host_calls =
                                      Append(@, [module |-> imp.module, name |-> imp.name,
                                                 args |-> args,
                                                 result |-> IF traps \/ ty.results = <<>>
                                                            THEN <<>> ELSE <<r>>])]
    /\ UNCHANGED pass_vars

\* memory.grow of memory 0: the engine grows the memory and answers with the
\* old size, or answers -1 (it may refuse any growth, it refuses a growth
\* beyond the maximum).
StepMemoryGrow ==
    /\ running({"MemoryGrow"})
    /\ LET delta == Last(machine.stack)
           mem == machine.memories[1]
           limit == IF module.memories[1].maximum = <<>> THEN 65536
                    ELSE module.memories[1].maximum[1]
           fits == delta >= 0 /\ delta <= limit - mem.pages
       IN  \E grown \in IF fits THEN BOOLEAN ELSE {FALSE} :
               LET result == IF grown THEN mem.pages ELSE -1
               IN  /\ machine' =
                        advance(push(pop([machine EXCEPT !.memories[1].pages =
                                             IF grown THEN @ + delta ELSE @], 1), result))
                   /\ ghost' = [observe(ghost, instr) EXCEPT !.grows =
                                   Append(@, [delta |-> delta, result |-> result])]
    /\ UNCHANGED pass_vars

\* A store: it traps when a byte of it lies outside the memory and writes
\* nothing then.  The history keeps the stores of the original body and
\* counts the others.
StepStore ==
    /\ running(StoreOps)
    /\ LET v == Last(machine.stack)
           addr == machine.stack[Len(machine.stack) - 1]
           mx == instr.memarg.memory + 1
           ea == effective_address(addr, instr.memarg.offset)
           width == store_width(instr.op)
           ok == in_bounds(machine.memories[mx], ea, width)
       IN  /\ machine' =
                IF ok
                THEN advance(pop([machine EXCEPT !.memories[mx] = write_bytes(@, ea, width, v)], 2))
                ELSE trap(machine)
           /\ ghost' =
                IF is_original(instr)
                THEN [observe(ghost, instr) EXCEPT !.stores =
                         Append(@, [op |-> instr.op, addr |-> addr,
                                    offset |-> instr.memarg.offset, ea |-> ea,
                                    width |-> width, completed |-> ok])]
                ELSE [ghost EXCEPT !.marks = @ + 1]
    /\ UNCHANGED pass_vars

\* memory.fill of memory 0: destination, value and length are popped; the
\* length is the runtime operand the helper was charged with.
StepMemoryFill ==
    /\ running({"MemoryFill"})
    /\ LET n == Last(machine.stack)
           v == machine.stack[Len(machine.stack) - 1]
           d == machine.stack[Len(machine.stack) - 2]
           ea == effective_address(d, 0)
           mem == machine.memories[1]
           ok == n >= 0 /\ in_bounds(mem, ea, n)
       IN  machine' =
             IF ok THEN advance(pop([machine EXCEPT !.memories[1] = fill_bytes(@, ea, n, v)], 3))
             ELSE trap(machine)
    /\ ghost' = IF is_original(instr)
                THEN [observe(ghost, instr) EXCEPT !.bulk = @ + Last(machine.stack)]
                ELSE ghost
    /\ UNCHANGED pass_vars

(***************************************************************************)
(* Instrumenting a module and invoking its exported function.              *)
(***************************************************************************)
RUN_EXPORT == "canister_update run"

export_index(m, kind, name) ==
    m.exports[CHOOSE e \in DOMAIN m.exports :
                  m.exports[e].kind = kind /\ m.exports[e].name = name].index

entry_function(m) == export_index(m, "Func", RUN_EXPORT)

\* The host finds the instruction counter by its export.
counter_index(m) == export_index(m, "Global", CANISTER_COUNTER_INSTRUCTIONS_STR)

counter == machine.globals[counter_index(module) + 1]

\* The original body with the position of each instruction noted on it.
tagged(instructions) ==
    [p \in DOMAIN instructions |-> [pos |-> p - 1] @@ instructions[p]]

\* instrument, up to the point where the module is handed to the encoder.
Instrument ==
    /\ applied = <<>>
    /\ module' = instrument_passes(module, flags.write_barrier,
                                   flags.wasm_native_stable_memory).module
    /\ orig' = module
    /\ applied' = <<"instrument">>
    /\ ghost' = [ghost EXCEPT !.points =
                    injections(body_of(module, entry_function(module)).instructions)]
    /\ UNCHANGED <<flags, out, machine>>

\* The values a caller passes and the values the host primes the counter
\* with before it runs the function.
MaxCounter == 10

CounterInits == {0, 2, 5, MaxCounter}

ArgValues == {0, 1, 4092, 4095, 65535, -1}

\* The host instantiates the instrumented module, sets the instruction
\* counter and calls the exported function.
Invoke ==
    /\ applied = <<"instrument">>
    /\ machine.status = "idle"
    /\ LET f == entry_function(module)
           nparams == Len(type_of(module, f).params)
       IN  \E c \in CounterInits, args \in {a \in SeqsUpTo(ArgValues, nparams) : Len(a) = nparams} :
             /\ machine' =
                  [status |-> "running",
                   frames |-> <<Frame(f, args \o zeros(n_locals(body_of(module, f).locals)), 0)>>,
                   stack |-> <<>>,
                   globals |-> [g \in 1..(Len(GlobalImports(module)) + Len(module.globals)) |->
                                  IF g = counter_index(module) + 1 THEN c
                                  ELSE IF g <= Len(GlobalImports(module)) THEN 0
                                  ELSE global_instance(module.globals[g - Len(GlobalImports(module))])],
                   memories |-> [k \in DOMAIN module.memories |->
                                   memory_instance(module.memories[k])]]
             /\ ghost' = [ghost EXCEPT !.initial = c]
    /\ UNCHANGED pass_vars

(***************************************************************************)
(* SpecMeter: the metering of structured programs.  A program is a list of *)
(* statements: nop, return, a branch, a conditional branch, a memory.fill  *)
(* whose length the host chooses, a block, a loop, an if with or without   *)
(* else.  Conditions and lengths come from a host import (function 0), so  *)
(* every path of a program runs.                                           *)
(***************************************************************************)
MaxStatements == 2

Nop == Op("Nop")
Return == Op("Return")
Block == [op |-> "Block", blockty |-> "Empty"]
Loop == [op |-> "Loop", blockty |-> "Empty"]
Else == Op("Else")
Br(d) == [op |-> "Br", relative_depth |-> d]
BrIf(d) == [op |-> "BrIf", relative_depth |-> d]
MemoryFill == [op |-> "MemoryFill", mem |-> 0]

\* Branch targets: the innermost label and the one around it.
BranchDepths(depth) == {d \in {0, 1} : d <= depth}

RECURSIVE Statement(_, _)
RECURSIVE Statements(_, _)
\* One statement of at most n statements (its own body included), under
\* `depth` enclosing blocks.
Statement(n, depth) ==
    {<<Nop>>, <<Return>>, <<I32Const(0), I32Const(0), Call(0), MemoryFill>>}
    \cup {<<Br(d)>> : d \in BranchDepths(depth)}
    \cup {<<Call(0), BrIf(d)>> : d \in BranchDepths(depth)}
    \cup {<<b>> \o body \o <<End>> : b \in {Block, Loop}, body \in Statements(n - 1, depth + 1)}
    \cup {<<Call(0), If>> \o body \o <<End>> : body \in Statements(n - 1, depth + 1)}
    \cup UNION {{<<Call(0), If>> \o b1 \o <<Else>> \o b2 \o <<End>> :
                    b1 \in Statements(k, depth + 1),
                    b2 \in Statements(n - 1 - k, depth + 1)} : k \in 0..(n - 1)}

Statements(n, depth) ==
    {<<>>} \cup UNION {{s \o rest : s \in Statement(k, depth), rest \in Statements(n - k, depth)} :
                          k \in 1..n}

MeterBodies == {Body(<<>>, tagged(p \o <<End>>)) : p \in Statements(MaxStatements, 0)}

\* A module with a host import (function 0), the function under test
\* (function 1, exported), one memory and one global of its own.
MeterModule(body) ==
    [EmptyModule EXCEPT
        !.types = <<FuncType(<<>>, <<"I32">>), FuncType(<<>>, <<>>)>>,
        !.imports = <<Import("ic0", "msg_arg_data_size", [kind |-> "Func", index |-> 0])>>,
        !.functions = <<1>>,
        !.code_sections = <<body>>,
        !.memories = <<MemoryType(FALSE, 1, <<>>)>>,
        !.globals = <<Global("I32", TRUE, I32Const(5))>>,
        !.exports = <<Export(RUN_EXPORT, "Func", 1)>>]

InitMeter ==
    /\ \E body \in MeterBodies : module = MeterModule(body)
    /\ orig = module
    /\ applied = <<>>
    /\ flags = [write_barrier |-> "Disabled", wasm_native_stable_memory |-> "Disabled"]
    /\ out = <<>>
    /\ machine = IdleMachine
    /\ ghost = NoGhost

NextMeter ==
    \/ Instrument
    \/ Invoke
    \/ StepConst
    \/ StepLocal
    \/ StepGlobal
    \/ StepNumeric
    \/ StepNop
    \/ StepBlock
    \/ StepIf
    \/ StepElse
    \/ StepEnd
    \/ StepBranch
    \/ StepReturn
    \/ StepCall
    \/ StepMemoryFill

SpecMeter == InitMeter /\ [][NextMeter]_vars

returned == machine.status = "returned"

\* The engine is about to execute an instruction of the original body.
at_original == machine.status = "running" /\ is_original(instr)

\* C2: when an instrumented function returns, the instruction counter is
\* its initial value minus the sum of instruction_to_cost over the
\* instructions that executed, early exits included.
C2_CounterIsInitialMinusExecuted ==
    returned => counter = ghost.initial - ghost.executed

out_of_instructions_called ==
    \E k \in DOMAIN ghost.host_calls :
        /\ ghost.host_calls[k].module = INSTRUMENTED_FUN_MODULE
        /\ ghost.host_calls[k].name = OUT_OF_INSTRUCTIONS_FUN_NAME

\* The static cost decremented without a check since the counter was last
\* checked, at the instruction the engine is at.
unchecked_cost ==
    IF at_original THEN chain_after(ghost.chain, ghost.points, instr.pos) ELSE ghost.chain

\* C4: no original instruction executes with the counter below zero right
\* after a checked decrement (a reentrant block start, the helper of a bulk
\* operation): out_of_instructions is called first and the run ends there;
\* and wherever an original instruction executes or the function returns
\* with a negative counter, the amount below zero is at most the static cost
\* of the non-reentrant blocks entered since the last check.
C4_OvershootBounded ==
    /\ (at_original \/ returned) => counter + unchecked_cost >= 0
    /\ out_of_instructions_called => machine.status = "trapped" /\ counter < 0

\* An original instruction about to execute with the counter below zero,
\* reached through non-reentrant blocks only.
C4_Witness ==
    /\ at_original
    /\ counter < 0
    /\ ~out_of_instructions_called

(***************************************************************************)
(* SpecGrow: functions that grow the memory.  The function takes the delta *)
(* of its first growth as its parameter and returns the value its last     *)
(* growth site leaves; the value a site leaves is the delta of the next.   *)
(***************************************************************************)
MaxGrows == 2

MemoryGrow == [op |-> "MemoryGrow", mem |-> 0, mem_byte |-> 0]

RECURSIVE GrowSites(_)
\* n growth sites in a row.
GrowSites(n) ==
    IF n = 1 THEN {<<src, MemoryGrow>> : src \in {LocalGet(0), I32Const(1)}}
    ELSE {sites \o <<LocalSet(0), LocalGet(0), MemoryGrow>> : sites \in GrowSites(n - 1)}

GrowBodies ==
    {Body(locals, tagged(sites \o <<End>>)) :
        locals \in {<<>>, <<<<1, "I64">>>>},
        sites \in UNION {GrowSites(n) : n \in 1..MaxGrows}}

GrowModule(body, maximum) ==
    [EmptyModule EXCEPT
        !.types = <<FuncType(<<"I32">>, <<"I32">>)>>,
        !.functions = <<0>>,
        !.code_sections = <<body>>,
        !.memories = <<MemoryType(FALSE, 1, maximum)>>,
        !.exports = <<Export(RUN_EXPORT, "Func", 0)>>]

InitGrow ==
    /\ \E body \in GrowBodies, maximum \in {<<>>, <<2>>} : module = GrowModule(body, maximum)
    /\ orig = module
    /\ applied = <<>>
    /\ flags \in {f \in Flags : f.wasm_native_stable_memory = "Disabled"}
    /\ out = <<>>
    /\ machine = IdleMachine
    /\ ghost = NoGhost

NextGrow ==
    \/ Instrument
    \/ Invoke
    \/ StepConst
    \/ StepLocal
    \/ StepGlobal
    \/ StepNumeric
    \/ StepIf
    \/ StepEnd
    \/ StepCall
    \/ StepMemoryGrow

SpecGrow == InitGrow /\ [][NextGrow]_vars

\* The calls of update_available_memory the host saw, in order.
update_available_memory_calls ==
    SelectSeq(ghost.host_calls,
              LAMBDA c : c.module = INSTRUMENTED_FUN_MODULE /\ c.name = UPDATE_MEMORY_FUN_NAME)

\* The original instruction that executed last was a memory.grow.
after_growth_site == ghost.last # <<>> /\ ghost.last[1].op = "MemoryGrow"

\* The protocol of a growth site, with the two arguments of the host call
\* in the given order: the growth executes first, the host is called once
\* per growth before the next original instruction, and the value the site
\* leaves on the stack is the host's answer.
growth_guard_protocol(delta_first) ==
    LET calls == update_available_memory_calls
        grows == ghost.grows
    IN  /\ Len(calls) <= Len(grows)
        /\ Len(grows) <= Len(calls) + 1
        /\ \A k \in DOMAIN calls :
              calls[k].args = IF delta_first THEN <<grows[k].delta, grows[k].result>>
                              ELSE <<grows[k].result, grows[k].delta>>
        /\ (at_original \/ returned) => Len(calls) = Len(grows)
        /\ at_original /\ after_growth_site => <<Last(machine.stack)>> = Last(calls).result

\* C5 as stated: after each rewritten memory.grow, update_available_memory
\* is called exactly once with the requested delta and then the growth
\* result, and the site leaves the host's answer on the stack.
C5_HostCalledWithDeltaThenResult == growth_guard_protocol(TRUE)

\* C5 with the arguments as the code passes them: after each rewritten
\* memory.grow, update_available_memory is called exactly once with the
\* growth result and then the requested delta, and the site leaves the
\* host's answer on the stack, not the raw growth result.
C5_HostCalledWithResultThenDelta == growth_guard_protocol(FALSE)

\* A growth that succeeded and that the host vetoed: the site leaves -1.
C5_Witness ==
    /\ at_original
    /\ after_growth_site
    /\ Last(ghost.grows).result # -1
    /\ Last(ghost.grows).delta # Last(ghost.grows).result
    /\ Last(update_available_memory_calls).result = <<-1>>
    /\ Last(machine.stack) = -1

(***************************************************************************)
(* SpecBarrier: functions that store to the address they are given, with   *)
(* the write barrier enabled.  Memory 0 is the heap (one Wasm page),       *)
(* memory 1 the bytemap that update_memories appends.                      *)
(***************************************************************************)
MaxStores == 2

\* One operation of each class of value local and of each width.
BarrierStoreOps == {"I32Store8", "I32Store", "I64Store16", "I64Store", "F32Store", "F64Store"}

\* Static offsets: none, not page-aligned, page-aligned.
StoreOffsets == {0, 1, PAGE_SIZE}

value_const(op) ==
    CASE op \in I32StoreOps -> I32Const(7)
      [] op \in I64StoreOps -> I64Const(7)
      [] op = "F32Store" -> [op |-> "F32Const", value |-> 7]
      [] op = "F64Store" -> [op |-> "F64Const", value |-> 7]

StoreStatements ==
    {<<LocalGet(0), value_const(op), [op |-> op, memarg |-> MemArg(offset, 0)]>> :
        op \in BarrierStoreOps, offset \in StoreOffsets}

RECURSIVE StoreSequences(_)
StoreSequences(n) ==
    IF n = 1 THEN StoreStatements
    ELSE {first \o rest : first \in StoreStatements, rest \in StoreSequences(n - 1)}

BarrierBodies ==
    {Body(<<>>, tagged(stores \o <<End>>)) : stores \in UNION {StoreSequences(n) : n \in 1..MaxStores}}

BarrierModule(body) ==
    [EmptyModule EXCEPT
        !.types = <<FuncType(<<"I32">>, <<>>)>>,
        !.functions = <<0>>,
        !.code_sections = <<body>>,
        !.memories = <<MemoryType(FALSE, 1, <<>>)>>,
        !.exports = <<Export(RUN_EXPORT, "Func", 0)>>]

InitBarrier ==
    /\ \E body \in BarrierBodies : module = BarrierModule(body)
    /\ orig = module
    /\ applied = <<>>
    /\ flags = [write_barrier |-> "Enabled", wasm_native_stable_memory |-> "Disabled"]
    /\ out = <<>>
    /\ machine = IdleMachine
    /\ ghost = NoGhost

NextBarrier ==
    \/ Instrument
    \/ Invoke
    \/ StepConst
    \/ StepLocal
    \/ StepGlobal
    \/ StepNumeric
    \/ StepIf
    \/ StepEnd
    \/ StepCall
    \/ StepStore

SpecBarrier == InitBarrier /\ [][NextBarrier]_vars

\* The byte of the bytemap for an OS page of the heap.
bytemap_byte(page) ==
    byte_at(machine.memories[tracking_mem_idx + 1],
            [page |-> page \div PAGE_SIZE, off |-> page % PAGE_SIZE])

\* The OS pages of the heap that a store has written a byte of.
written_pages == {a.page : a \in DOMAIN machine.memories[1].cells}

\* The OS pages whose byte in the bytemap is not 0.
marked_pages ==
    {a.page * PAGE_SIZE + a.off :
        a \in {b \in DOMAIN machine.memories[tracking_mem_idx + 1].cells :
                  machine.memories[tracking_mem_idx + 1].cells[b] # 0}}

\* No store of the original body is under way: the run is over, or the
\* engine is at an original instruction other than a store (the barrier of
\* a store runs between the operands of the store and the store).
no_store_under_way ==
    \/ machine.status \in {"returned", "trapped"}
    \/ at_original /\ instr.op \notin StoreOps

\* C6: after each store of the original body, whatever its address and
\* offset and whether it trapped or not, the byte of the bytemap for page
\* floor((address + offset) / PAGE_SIZE) is 1, and the byte of every page
\* that no store has written is 0.
C6_BytemapMarksWrittenPagesOnly ==
    no_store_under_way =>
        /\ \A k \in DOMAIN ghost.stores : bytemap_byte(ghost.stores[k].ea.page) = 1
        /\ marked_pages \subseteq written_pages

\* C7: after a store of any width, every page that holds a byte the store
\* modified is marked in the bytemap, and one store to the bytemap is
\* executed per store of the original body.
C7_EveryModifiedPageMarked ==
    machine.status # "idle" =>
        /\ \A k \in DOMAIN ghost.stores :
              ghost.stores[k].completed =>
                  \A j \in 0..(ghost.stores[k].width - 1) :
                      bytemap_byte(address_plus(ghost.stores[k].ea, j).page) = 1
        /\ Len(ghost.stores) <= ghost.marks
        /\ ghost.marks <= Len(ghost.stores) + 1
        /\ returned => ghost.marks = Len(ghost.stores)

(***************************************************************************)
(* instrument as a whole: the replacement of the system API functions, the *)
(* check of the number of memories, the extraction and validation of the   *)
(* data segments, the encoding and the value returned.                     *)
(***************************************************************************)
API_VERSION_IC0 == "ic0"

\* system_api_replacements::replacement_functions: the system API functions
\* replaced in wasm-native stable memory mode, each with its signature and
\* the body that takes its place (kept opaque: it records the three indices
\* it was built from).
replacement_functions(stable_memory_index, count_clean_pages_fn_index, dirty_pages_counter_index) ==
    LET replacement(api) ==
            Body(<<>>, <<[op |-> "Replacement", api |-> api,
                          stable_memory_index |-> stable_memory_index,
                          count_clean_pages_fn_index |-> count_clean_pages_fn_index,
                          dirty_pages_counter_index |-> dirty_pages_counter_index],
                         End>>)
    IN  <<[api |-> "stable_size", ty |-> FuncType(<<>>, <<"I32">>),
           body |-> replacement("stable_size")],
          [api |-> "stable_grow", ty |-> FuncType(<<"I32">>, <<"I32">>),
           body |-> replacement("stable_grow")]>>

\* calculate_api_indexes: the function index of each ic0 import, by name
\* (collect() into a map keeps the last import of a name).
calculate_api_indexes(m) ==
    LET imports == FuncImports(m)
        names == {imports[i].name : i \in {j \in DOMAIN imports : imports[j].module = API_VERSION_IC0}}
    IN  [name \in names |->
            (CHOOSE i \in DOMAIN imports :
                /\ imports[i].module = API_VERSION_IC0 /\ imports[i].name = name
                /\ \A j \in DOMAIN imports :
                      (imports[j].module = API_VERSION_IC0 /\ imports[j].name = name) => j <= i) - 1]

\* The loop of replace_system_api_functions from the k-th replacement on:
\* the module and the map of replaced function indices.
RECURSIVE replacements_loop(_, _, _, _, _)
replacements_loop(m, replacements, k, api_indexes, func_index_replacements) ==
    IF k > Len(replacements) THEN [module |-> m, map |-> func_index_replacements]
    ELSE IF replacements[k].api \in DOMAIN api_indexes
    THEN LET ty == add_type(m.types, replacements[k].ty)
             new_index == Len(FuncImports(m)) + Len(m.functions)
             old_index == api_indexes[replacements[k].api]
         IN  replacements_loop(
                 [m EXCEPT !.types = ty.types,
                           !.functions = Append(@, ty.idx),
                           !.code_sections = Append(@, replacements[k].body)],
                 replacements, k + 1, api_indexes,
                 [i \in DOMAIN func_index_replacements \cup {old_index} |->
                     IF i = old_index THEN new_index ELSE func_index_replacements[i]])
    ELSE replacements_loop(m, replacements, k + 1, api_indexes, func_index_replacements)

replace_system_api_functions(m, stable_memory_index, count_clean_pages_fn_index, dirty_pages_counter_index) ==
    LET r == replacements_loop(m, replacement_functions(stable_memory_index,
                                                        count_clean_pages_fn_index,
                                                        dirty_pages_counter_index),
                               1, calculate_api_indexes(m), [i \in {} |-> 0])
    IN  mutate_function_indices(r.module, [kind |-> "replace", map |-> r.map])

IncorrectNumberMemorySections(expected, got) ==
    [kind |-> "IncorrectNumberMemorySections", expected |-> expected, got |-> got]

WasmSerializeError == [kind |-> "WasmSerializeError"]

InvalidDataSegment(offset, length) ==
    [kind |-> "InvalidDataSegment", offset |-> offset, length |-> length]

\* An expected count that leaves the bytemap of the write barrier out.
expected_memories_without_bytemap(write_barrier, wasm_native_stable_memory) ==
    1 + (IF wasm_native_stable_memory = "Enabled" THEN 2 ELSE 0)

expected_memories(write_barrier, wasm_native_stable_memory) ==
    1 + (IF write_barrier = "Enabled" THEN 1 ELSE 0)
      + (IF wasm_native_stable_memory = "Enabled" THEN 2 ELSE 0)

\* A byte address as the Wasm page it lies in and the offset in that page.
\* page_address is the address of a usize below 2^31, u32_address that of
\* the unsigned value of an i32.
page_address(n) == [page |-> n \div WASM_PAGE_SIZE, off |-> n % WASM_PAGE_SIZE]

u32_address(value) ==
    [page |-> IF value >= 0 THEN value \div WASM_PAGE_SIZE
              ELSE (value \div WASM_PAGE_SIZE) + 65536,
     off |-> value % WASM_PAGE_SIZE]

byte_plus(a, k) ==
    [page |-> a.page + ((a.off + k) \div WASM_PAGE_SIZE), off |-> (a.off + k) % WASM_PAGE_SIZE]

\* length bytes from address a on end at or before the end of a memory of
\* the given number of Wasm pages.
ends_within(a, length, pages) ==
    LET end == byte_plus(a, length)
    IN  end.page < pages \/ (end.page = pages /\ end.off = 0)

\* Segments::validate: every segment fits in the memory size given, in Wasm
\* pages; the first that does not is the error.  An offset of 2^64 - 2^31
\* or more lies beyond every memory.
segment_fits(segment, pages) ==
    segment[1].high = 0 /\ ends_within(page_address(segment[1].low), Len(segment[2]), pages)

validate(segments, memory_size) ==
    IF \A i \in DOMAIN segments : segment_fits(segments[i], memory_size) THEN Ok(segments)
    ELSE LET first == CHOOSE i \in DOMAIN segments :
                          /\ ~segment_fits(segments[i], memory_size)
                          /\ \A j \in 1..(i - 1) : segment_fits(segments[j], memory_size)
         IN  Err(InvalidDataSegment(segments[first][1], Len(segments[first][2])))

\* WasmMethod::try_from on the export names of the model.
WasmMethods == {RUN_EXPORT, CANISTER_START_STR, "canister_init"}

\* The operators of a constant initialiser: the constant and End.
RECURSIVE wasm_instruction_count(_, _)
wasm_instruction_count(code_sections, globals) ==
    IF code_sections = <<>> THEN 2 * Len(globals)
    ELSE Len(code_sections[1].instructions) + wasm_instruction_count(Tail(code_sections), globals)

\* The module after replace_system_api_functions, which runs with the
\* native stable memory only; p is what the passes before it produced.
system_api_replaced(p, wasm_native_stable_memory) ==
    IF wasm_native_stable_memory = "Enabled"
    THEN replace_system_api_functions(p.module, p.stable_memory_index,
                                      p.export_module_data.count_clean_pages_fn[1],
                                      p.export_module_data.dirty_pages_counter_ix[1])
    ELSE p.module

\* instrument from the collection of the exported functions on: the value
\* it returns for the module m8 the passes left.
instrument_result(m8, cost, write_barrier, wasm_native_stable_memory, encode_ok) ==
    LET exported_functions ==
            SelectSeq([e \in DOMAIN m8.exports |-> m8.exports[e].name],
                      LAMBDA name : name \in WasmMethods)
        expected == expected_memories(write_barrier, wasm_native_stable_memory)
        initial_limit == IF m8.memories = <<>> THEN 0 ELSE m8.memories[1].initial
        data == get_data(m8.data)
        validated == validate(data.result.value, initial_limit)
        m9 == [m8 EXCEPT !.data = data.data_section]
    IN  IF Len(m8.memories) > expected
        THEN [result |-> Err(IncorrectNumberMemorySections(expected, Len(m8.memories))),
              module |-> m8]
        ELSE IF ~data.result.ok THEN [result |-> data.result, module |-> m9]
        ELSE IF ~validated.ok THEN [result |-> validated, module |-> m9]
        ELSE IF ~encode_ok THEN [result |-> Err(WasmSerializeError), module |-> m9]
        ELSE [result |-> Ok([exported_functions |-> exported_functions,
                             data |-> data.result.value,
                             binary |-> m9,
                             compilation_cost |->
                                 cost * wasm_instruction_count(m9.code_sections, m9.globals)]),
              module |-> m9]

\* instrument: the value it returns.  encode_ok says whether module.encode()
\* succeeds; cost is cost_to_compile_wasm_instruction.
instrument(m, cost, write_barrier, wasm_native_stable_memory, encode_ok) ==
    instrument_result(
        system_api_replaced(instrument_passes(m, write_barrier, wasm_native_stable_memory),
                            wasm_native_stable_memory),
        cost, write_barrier, wasm_native_stable_memory, encode_ok)

(***************************************************************************)
(* SpecInstrument: instrument on modules with no, one or two memories of   *)
(* 0, 1 or 65536 pages, up to MaxSegments data segments, with or without a *)
(* start function, under every setting of the two flags.                   *)
(***************************************************************************)
InstrumentSegments ==
    {DataSegment(Active(I32Const(v)), d) : v \in {0, 65535, -1}, d \in {<<7>>, <<1, 2>>}}
    \cup {DataSegment(Active(GlobalGet(0)), <<7>>), DataSegment(Passive, <<7>>)}

InstrumentMemories ==
    {<<>>, <<MemoryType(FALSE, 1, <<>>), MemoryType(FALSE, 1, <<>>)>>}
    \cup {<<MemoryType(FALSE, initial, <<>>)>> : initial \in {0, 1, 65536}}

\* Function 0 is an import of the system API, functions 1 and 2 are the
\* module's own and may be its start function.
InstrumentStarts == {<<>>, <<1>>, <<2>>}

InstrumentModule(memories, data, start) ==
    [EmptyModule EXCEPT
        !.types = <<FuncType(<<>>, <<"I32">>), FuncType(<<>>, <<>>)>>,
        !.imports = <<Import(API_VERSION_IC0, "stable_size", [kind |-> "Func", index |-> 0])>>,
        !.functions = <<1, 1>>,
        !.code_sections = <<Body(<<>>, <<Call(0), Op("Drop"), End>>), Body(<<>>, <<Nop, End>>)>>,
        !.globals = <<Global("I32", TRUE, I32Const(5))>>,
        !.memories = memories,
        !.data = data,
        !.start = start,
        !.exports = <<Export(RUN_EXPORT, "Func", 1)>>]

InitInstrument ==
    /\ \E memories \in InstrumentMemories, data \in SeqsUpTo(InstrumentSegments, MaxSegments),
          start \in InstrumentStarts :
        module = InstrumentModule(memories, data, start)
    /\ orig = module
    /\ applied = <<>>
    /\ flags \in Flags
    /\ out = <<>>
    /\ machine = IdleMachine
    /\ ghost = NoGhost

\* A call of instrument: out is the Result it returns.
InstrumentOutput ==
    /\ applied = <<>>
    /\ \E encode_ok \in BOOLEAN, cost \in {1, 3} :
        LET r == instrument(module, cost, flags.write_barrier, flags.wasm_native_stable_memory,
                            encode_ok)
        IN  /\ module' = r.module
            /\ out' = <<r.result>>
    /\ orig' = module
    /\ applied' = <<"instrument">>
    /\ UNCHANGED <<flags, machine, ghost>>

NextInstrument == InstrumentOutput

SpecInstrument == InitInstrument /\ [][NextInstrument]_vars

\* The cells of a memory after bytes are written from address a on.
place(cells, a, bytes) ==
    [x \in DOMAIN cells \cup {byte_plus(a, k - 1) : k \in DOMAIN bytes} |->
        IF \E k \in DOMAIN bytes : x = byte_plus(a, k - 1)
        THEN bytes[CHOOSE k \in DOMAIN bytes : x = byte_plus(a, k - 1)]
        ELSE cells[x]]

\* The memory an engine builds from a data section of active segments with
\* constant offsets: each segment is written at the unsigned value of its
\* offset; the instantiation fails when a segment ends beyond the memory.
RECURSIVE original_memory(_, _, _)
original_memory(data, pages, cells) ==
    IF data = <<>> THEN Ok(cells)
    ELSE LET a == u32_address(Head(data).kind.offset_expr.value)
         IN  IF ends_within(a, Len(Head(data).data), pages)
             THEN original_memory(Tail(data), pages, place(cells, a, Head(data).data))
             ELSE Err("out of bounds")

\* The memory built by replaying extracted (offset, bytes) pairs in order.
RECURSIVE replayed_memory(_, _, _)
replayed_memory(segments, pages, cells) ==
    IF segments = <<>> THEN Ok(cells)
    ELSE IF segment_fits(Head(segments), pages)
         THEN replayed_memory(Tail(segments), pages,
                              place(cells, page_address(Head(segments)[1].low), Head(segments)[2]))
         ELSE Err("out of bounds")

declared_pages(m) == IF m.memories = <<>> THEN 0 ELSE m.memories[1].initial

instrumented == applied = <<"instrument">>

\* C11: for a module whose data segments all have constant i32 offsets,
\* replaying the extracted (offset, bytes) pairs in order onto a zeroed
\* memory of the declared initial size gives the memory the original data
\* section gives; and instrument returns an error, the validation error
\* when the number of memories is accepted, when an extracted segment does
\* not fit in the declared size.
C11_DataSegmentRoundTrip ==
    (instrumented /\ \A i \in DOMAIN orig.data : IsConstOffsetSegment(orig.data[i])) =>
        LET pages == declared_pages(orig)
            extracted == get_data(orig.data).result.value
            empty == [x \in {} |-> 0]
        IN  /\ replayed_memory(extracted, pages, empty) = original_memory(orig.data, pages, empty)
            /\ (\E i \in DOMAIN extracted : ~segment_fits(extracted[i], pages)) =>
                  /\ ~out[1].ok
                  /\ out[1].error.kind \in {"InvalidDataSegment", "IncorrectNumberMemorySections"}

\* C12: instrument returns IncorrectNumberMemorySections{expected, got}
\* exactly when the number of memories after update_memories exceeds
\* expected = 1 + (1 with the write barrier) + (2 with wasm-native stable
\* memory), got being that number; no error of the data segments and no
\* encoding error is reported then.
C12_MemoryCountChecked ==
    instrumented =>
        LET expected == 1 + (IF flags.write_barrier = "Enabled" THEN 1 ELSE 0)
                          + (IF flags.wasm_native_stable_memory = "Enabled" THEN 2 ELSE 0)
            got == Len(update_memories(orig, flags.write_barrier,
                                       flags.wasm_native_stable_memory).module.memories)
        IN  IF got > expected
            THEN out[1] = Err(IncorrectNumberMemorySections(expected, got))
            ELSE out[1].ok \/ out[1].error.kind # "IncorrectNumberMemorySections"

\* instrument rejected a module with one memory too many whose data section
\* get_data and validate would have rejected too.
C12_Witness ==
    /\ instrumented
    /\ ~out[1].ok
    /\ out[1].error.kind = "IncorrectNumberMemorySections"
    /\ out[1].error.got = out[1].error.expected + 1
    /\ \E i \in DOMAIN orig.data : ~IsConstOffsetSegment(orig.data[i])
    /\ \E i \in DOMAIN orig.data : orig.data[i].kind = Active(I32Const(-1))

(***************************************************************************)
(* SpecGlobals: export_mutable_globals on modules with up to one imported  *)
(* global, up to two globals of their own and up to MaxExports exports.    *)
(***************************************************************************)
GlobalImportChoices ==
    {<<>>} \cup {<<Import("env", "g", [kind |-> "Global", mutable |-> mu])>> : mu \in BOOLEAN}

GlobalChoices == SeqsUpTo({Global("I32", mu, I32Const(0)) : mu \in BOOLEAN}, 2)

GlobalExportEntries ==
    {Export("f", "Func", 0)} \cup {Export("g" \o ToString(ix), "Global", ix) : ix \in 0..2}

GlobalsModule(imports, globals, exports) ==
    [EmptyModule EXCEPT
        !.types = <<FuncType(<<>>, <<>>)>>,
        !.imports = imports,
        !.functions = <<0>>,
        !.code_sections = <<Body(<<>>, <<End>>)>>,
        !.globals = globals,
        !.exports = exports]

\* The size of the global index space: imported globals come first.
NumGlobals(m) == Len(GlobalImports(m)) + Len(m.globals)

InitGlobals ==
    /\ \E imports \in GlobalImportChoices, globals \in GlobalChoices,
          exports \in {e \in SeqsUpTo(GlobalExportEntries, MaxExports) : DistinctNames(e)} :
        /\ module = GlobalsModule(imports, globals, exports)
        /\ \A ix \in ExportedGlobalIndices(module) : ix < NumGlobals(module)
    /\ orig = module
    /\ applied = <<>>
    /\ flags \in Flags
    /\ out = <<>>
    /\ machine = IdleMachine
    /\ ghost = NoGhost

\* export_mutable_globals: it returns the module, or panics on the index of
\* an export that is not an index of module.globals.
ExportMutableGlobals ==
    /\ applied = <<>>
    /\ IF export_mutable_globals_panics(module)
       THEN module' = module /\ out' = <<"panic">>
       ELSE module' = export_mutable_globals(module) /\ out' = out
    /\ orig' = module
    /\ applied' = <<"export_mutable_globals">>
    /\ UNCHANGED <<flags, machine, ghost>>

NextGlobals == ExportMutableGlobals

SpecGlobals == InitGlobals /\ [][NextGlobals]_vars

\* Whether the global with index g of the global index space is mutable.
global_is_mutable(m, g) ==
    IF g < Len(GlobalImports(m)) THEN GlobalImports(m)[g + 1].ty.mutable
    ELSE m.globals[g - Len(GlobalImports(m)) + 1].ty.mutable

\* C13: after export_mutable_globals, on every module (imported globals
\* included), every mutable global that was not exported is exported by
\* exactly one new export of kind Global whose index is the global's index
\* in the global index space (imported globals first), the exports there
\* were are unchanged and no exported global gets another export.
C13_MutableGlobalsExported ==
    applied = <<"export_mutable_globals">> =>
        /\ out = <<>>
        /\ Len(module.exports) >= Len(orig.exports)
        /\ SubSeq(module.exports, 1, Len(orig.exports)) = orig.exports
        /\ LET added == SubSeq(module.exports, Len(orig.exports) + 1, Len(module.exports))
           IN  /\ \A k \in DOMAIN added : added[k].kind = "Global"
               /\ \A g \in 0..(NumGlobals(orig) - 1) :
                     Cardinality({k \in DOMAIN added : added[k].index = g}) =
                         IF global_is_mutable(orig, g) /\ g \notin ExportedGlobalIndices(orig)
                         THEN 1 ELSE 0

\* C14: if the input module has a start function with index s, the module
\* instrument leaves has no start section and has an export named
\* "canister_start" of kind Func with index s + k, k the number of injected
\* imports, which is the function s was; if the input has no start function
\* no "canister_start" export is added.
C14_StartFunctionExported ==
    instrumented =>
        LET k == InjectedImports_count(flags.wasm_native_stable_memory)
            starts == {e \in DOMAIN module.exports : module.exports[e].name = CANISTER_START_STR}
        IN  /\ module.start = <<>>
            /\ IF orig.start = <<>> THEN starts = {}
               ELSE \E e \in starts :
                      /\ module.exports[e].kind = "Func"
                      /\ module.exports[e].index = orig.start[1] + k
                      /\ FuncAt(module, module.exports[e].index) = FuncAt(orig, orig.start[1])

\* instrument returned an output for a module whose start function is its
\* second function, with the five imports of wasm-native stable memory
\* injected and the system API import replaced.
C14_Witness ==
    /\ instrumented
    /\ out[1].ok
    /\ orig.start = <<2>>
    /\ flags.wasm_native_stable_memory = "Enabled"
    /\ \E e \in DOMAIN module.exports :
          module.exports[e] = Export(CANISTER_START_STR, "Func", 7)

(***************************************************************************)
(* SpecMemories: update_memories, alone and inside instrument, on modules  *)
(* with or without an imported memory, with no, one or two memories of     *)
(* their own and up to MaxExports exports.                                 *)
(***************************************************************************)
MemoryImportChoices ==
    {<<>>, <<Import("env", "memory", [kind |-> "Memory", memory64 |-> FALSE, initial |-> 1])>>}

MemoryChoices == SeqsUpTo({MemoryType(FALSE, 1, <<>>)}, 2)

MemoryExportEntries ==
    {Export("f", "Func", 0), Export("mem", "Memory", 0), Export("mem1", "Memory", 1)}

MemoryImports(m) == SelectSeq(m.imports, LAMBDA imp : imp.ty.kind = "Memory")

\* The size of the memory index space: imported memories come first.
NumMemories(m) == Len(MemoryImports(m)) + Len(m.memories)

\* The memory type at index i of the memory index space of a module.
memory_at(m, i) ==
    IF i < Len(MemoryImports(m))
    THEN MemoryType(MemoryImports(m)[i + 1].ty.memory64, MemoryImports(m)[i + 1].ty.initial, <<>>)
    ELSE m.memories[i - Len(MemoryImports(m)) + 1]

MemoriesModule(imports, memories, exports) ==
    [EmptyModule EXCEPT
        !.types = <<FuncType(<<>>, <<>>)>>,
        !.imports = imports,
        !.functions = <<0>>,
        !.code_sections = <<Body(<<>>, <<Nop, End>>)>>,
        !.memories = memories,
        !.exports = exports]

InitMemories ==
    /\ \E imports \in MemoryImportChoices, memories \in MemoryChoices,
          exports \in {e \in SeqsUpTo(MemoryExportEntries, MaxExports) : DistinctNames(e)} :
        /\ module = MemoriesModule(imports, memories, exports)
        /\ \A e \in DOMAIN exports : exports[e].kind = "Memory" => exports[e].index < NumMemories(module)
    /\ orig = module
    /\ applied = <<>>
    /\ flags \in Flags
    /\ out = <<>>
    /\ machine = IdleMachine
    /\ ghost = NoGhost

NextMemories == UpdateMemories \/ InstrumentOutput

SpecMemories == InitMemories /\ [][NextMemories]_vars

\* The memories and the exports a pass appended.
appended_memories == SubSeq(module.memories, Len(orig.memories) + 1, Len(module.memories))

appended_exports == SubSeq(module.exports, Len(orig.exports) + 1, Len(module.exports))

\* The index, in the memory index space, of the k-th appended memory.
appended_index(k) == NumMemories(orig) + k - 1

stable_memory_type == MemoryType(TRUE, 0, <<MAX_STABLE_MEMORY_IN_WASM_PAGES>>)

stable_bytemap_type ==
    MemoryType(FALSE, STABLE_BYTEMAP_SIZE_IN_WASM_PAGES, <<STABLE_BYTEMAP_SIZE_IN_WASM_PAGES>>)

heap_bytemap_type ==
    MemoryType(FALSE, BYTEMAP_SIZE_IN_WASM_PAGES, <<BYTEMAP_SIZE_IN_WASM_PAGES>>)

\* Whether a memory has the given type.  The sizes of the stable memories
\* are symbolic, so the types are compared as written.
has_type(memory, memory_type) == ToString(memory) = ToString(memory_type)

\* The memories the loads of the clean-page-counting helper read.
clean_pages_memories ==
    UNION {{module.code_sections[b].instructions[p].memarg.memory :
               p \in {q \in DOMAIN module.code_sections[b].instructions :
                         module.code_sections[b].instructions[q].op = "I32Load8U"}} :
           b \in DOMAIN module.code_sections}

\* C15: with wasm-native stable memory enabled, update_memories appends two
\* memories exactly, the 64-bit stable memory and then its bytemap; the
\* index r it returns is the index of the stable memory in the memory index
\* space of the module and r + 1 that of the bytemap; the two are exported
\* under their canonical names with indices r and r + 1; and the
\* clean-page-counting helper of export_additional_symbols reads memory
\* r + 1; for every module and either setting of the write barrier.
C15_StableMemoryIndices ==
    /\ (applied = <<"update_memories">> /\ flags.wasm_native_stable_memory = "Enabled") =>
          LET r == out[1]
              n == Len(appended_memories)
              m == Len(appended_exports)
          IN  /\ n >= 2
              /\ Cardinality({k \in 1..n : \/ has_type(appended_memories[k], stable_memory_type)
                                          \/ has_type(appended_memories[k], stable_bytemap_type)}) = 2
              /\ has_type(appended_memories[n - 1], stable_memory_type)
              /\ has_type(appended_memories[n], stable_bytemap_type)
              /\ r = appended_index(n - 1)
              /\ has_type(memory_at(module, r), stable_memory_type)
              /\ has_type(memory_at(module, r + 1), stable_bytemap_type)
              /\ m >= 2
              /\ appended_exports[m - 1] = Export(STABLE_MEMORY_NAME, "Memory", r)
              /\ appended_exports[m] = Export(STABLE_BYTEMAP_MEMORY_NAME, "Memory", r + 1)
    /\ (instrumented /\ flags.wasm_native_stable_memory = "Enabled") =>
          /\ clean_pages_memories # {}
          /\ \A i \in clean_pages_memories :
                i < NumMemories(module) /\ has_type(memory_at(module, i), stable_bytemap_type)

\* C16: with the write barrier enabled update_memories appends one bytemap
\* memory exactly and one export for it, and the index of that export and
\* the memory the injected write barrier writes (tracking_mem_idx) are the
\* index at which the bytemap was appended, for every module, whatever the
\* number of its memories.
C16_BytemapMemoryIndex ==
    (applied = <<"update_memories">> /\ flags.write_barrier = "Enabled") =>
        LET bytemaps == {k \in DOMAIN appended_memories : has_type(appended_memories[k], heap_bytemap_type)}
            exports == {e \in DOMAIN appended_exports :
                           appended_exports[e].name = WASM_HEAP_BYTEMAP_MEMORY_NAME}
        IN  /\ Cardinality(bytemaps) = 1
            /\ Cardinality(exports) = 1
            /\ \A k \in bytemaps, e \in exports :
                  /\ appended_exports[e].kind = "Memory"
                  /\ appended_exports[e].index = appended_index(k)
                  /\ tracking_mem_idx = appended_index(k)

(***************************************************************************)
(* SpecPoints: injections and inject_metering on the bodies of up to       *)
(* MaxPointStatements statements: plain instructions, branches, the bulk   *)
(* instructions on memories and tables with their operands, blocks, loops  *)
(* and ifs.                                                                *)
(***************************************************************************)
MaxPointStatements == 2

MemoryCopy == [op |-> "MemoryCopy", dst_mem |-> 0, src_mem |-> 0]
MemoryInit == [op |-> "MemoryInit", data_index |-> 0, mem |-> 0]
TableFill == [op |-> "TableFill", table |-> 0]
TableCopy == [op |-> "TableCopy", dst_table |-> 0, src_table |-> 0]
TableInit == [op |-> "TableInit", elem_index |-> 0, table |-> 0]
BrTable(d) == [op |-> "BrTable", targets |-> <<d>>, default |-> 0]

\* The fill, copy and init instructions on memories and on tables.
BulkInstructions == {MemoryFill, MemoryCopy, MemoryInit, TableFill, TableCopy, TableInit}

\* A bulk instruction with its three operands; table.fill takes a reference
\* as its second.
with_operands(bulk) ==
    <<I32Const(0), IF bulk.op = "TableFill" THEN Op("RefNull") ELSE I32Const(0), I32Const(2), bulk>>

PointLeaves(depth) ==
    {<<Nop>>, <<Return>>, <<I32Const(1), MemoryGrow, Op("Drop")>>, <<Op("DataDrop")>>}
    \cup {with_operands(bulk) : bulk \in BulkInstructions}
    \cup {<<Br(d)>> : d \in BranchDepths(depth)}
    \cup {<<I32Const(1), BrIf(d)>> : d \in BranchDepths(depth)}
    \cup {<<I32Const(1), BrTable(d)>> : d \in BranchDepths(depth)}
    \cup {<<I32Const(0), I32Const(0), I32Const(2), I32Const(1), BrIf(d), MemoryFill>> :
             d \in BranchDepths(depth)}

RECURSIVE PointStatement(_, _)
RECURSIVE PointStatements(_, _)
PointStatement(n, depth) ==
    PointLeaves(depth)
    \cup {<<b>> \o body \o <<End>> : b \in {Block, Loop}, body \in PointStatements(n - 1, depth + 1)}
    \cup {<<I32Const(1), If>> \o body \o <<End>> : body \in PointStatements(n - 1, depth + 1)}
    \cup UNION {{<<I32Const(1), If>> \o b1 \o <<Else>> \o b2 \o <<End>> :
                    b1 \in PointStatements(k, depth + 1),
                    b2 \in PointStatements(n - 1 - k, depth + 1)} : k \in 0..(n - 1)}

PointStatements(n, depth) ==
    {<<>>} \cup UNION {{st \o rest : st \in PointStatement(k, depth),
                                    rest \in PointStatements(n - k, depth)} : k \in 1..n}

PointBodies == {Body(<<>>, tagged(p \o <<End>>)) : p \in PointStatements(MaxPointStatements, 0)}

PointsModule(body) ==
    [EmptyModule EXCEPT
        !.types = <<FuncType(<<>>, <<>>)>>,
        !.functions = <<0>>,
        !.code_sections = <<body>>,
        !.memories = <<MemoryType(FALSE, 1, <<>>)>>,
        !.tables = <<[element_type |-> "FuncRef", initial |-> 1]>>,
        !.exports = <<Export(RUN_EXPORT, "Func", 0)>>]

InitPoints ==
    /\ \E body \in PointBodies : module = PointsModule(body)
    /\ orig = module
    /\ applied = <<>>
    /\ flags = [write_barrier |-> "Disabled", wasm_native_stable_memory |-> "Disabled"]
    /\ out = <<>>
    /\ machine = IdleMachine
    /\ ghost = NoGhost

\* inject_metering on the body of the function; the history keeps the
\* points injections returned for it.
InjectMetering ==
    /\ applied = <<>>
    /\ LET export_module_data == export_module_data_of(module, flags.wasm_native_stable_memory)
       IN  module' = [module EXCEPT !.code_sections[1].instructions =
                         inject_metering(@, export_module_data)]
    /\ ghost' = [ghost EXCEPT !.points = injections(module.code_sections[1].instructions)]
    /\ orig' = module
    /\ applied' = <<"inject_metering">>
    /\ UNCHANGED <<flags, out, machine>>

NextPoints == InjectMetering

SpecPoints == InitPoints /\ [][NextPoints]_vars

metered == applied = <<"inject_metering">>

original_code == orig.code_sections[1].instructions

metered_code == module.code_sections[1].instructions

\* The place in the metered code of the original instruction of position p.
place_of(p) == CHOOSE q \in DOMAIN metered_code :
                   is_original(metered_code[q]) /\ metered_code[q].pos = p

\* The injected instructions that sit right before the original instruction
\* of position p.
injected_before(p) ==
    LET q == place_of(p)
        first == CHOOSE f \in 1..q :
                    /\ \A j \in f..(q - 1) : ~is_original(metered_code[j])
                    /\ f > 1 => is_original(metered_code[f - 1])
    IN  SubSeq(metered_code, first, q - 1)

\* An instruction without the mark of its position.
untagged(i) == [f \in DOMAIN i \ {"pos"} |-> i[f]]

dynamic_points_at(points, p) ==
    SelectSeq(points, LAMBDA pt : pt.position = p /\ pt.cost_detail.kind = "DynamicCost")

\* C18: injections records a DynamicCost point, at the position of the
\* instruction, for every fill, copy and init instruction on memories and on
\* tables (memory.fill, memory.copy, memory.init, table.fill, table.copy,
\* table.init) and for no other instruction.
C18_DynamicPointsAtBulkInstructions ==
    metered =>
        \A p \in 0..(Len(original_code) - 1) :
            Len(dynamic_points_at(ghost.points, p)) =
                IF untagged(original_code[p + 1]) \in BulkInstructions THEN 1 ELSE 0

counter_of_points == export_module_data_of(orig, flags.wasm_native_stable_memory).instructions_counter_ix

helper_of_points == export_module_data_of(orig, flags.wasm_native_stable_memory).decr_instruction_counter_fn

\* counter -= cost.
decrement_by(cost) ==
    <<GlobalGet(counter_of_points), I64Const(cost), Op("I64Sub"), GlobalSet(counter_of_points)>>

\* if counter < 0 { out_of_instructions() }.
check_below_zero ==
    <<GlobalGet(counter_of_points), I64Const(0), Op("I64LtS"), If, Call(OutOfInstructions), End>>

is_helper_call(i) == i = Call(helper_of_points)

\* What the injected instructions before position p hold besides the calls
\* of the decrement helper.
static_code_before(p) == SelectSeq(injected_before(p), LAMBDA i : ~is_helper_call(i))

helper_calls_before(p) == SelectSeq(injected_before(p), is_helper_call)

\* The code of the static points at position p: nothing for a point of cost
\* 0 that is not reentrant, the decrement otherwise, followed by the check
\* when the point is reentrant.
RECURSIVE static_code_of(_)
static_code_of(points) ==
    IF points = <<>> THEN <<>>
    ELSE LET detail == points[1].cost_detail
         IN  (IF detail.cost > 0 \/ detail.scope = "ReentrantBlockStart"
              THEN decrement_by(detail.cost)
                   \o (IF detail.scope = "ReentrantBlockStart" THEN check_below_zero ELSE <<>>)
              ELSE <<>>)
             \o static_code_of(Tail(points))

\* The positions of the instructions that follow a loop header.
loop_headers == {p \in 1..(Len(original_code) - 1) : original_code[p].op = "Loop"}

\* C17: inject_metering emits the code of a static point if and only if its
\* cost is positive or its scope is ReentrantBlockStart, so the start of the
\* function and every loop header get the decrement followed by the check of
\* counter < 0 even at cost 0; every dynamic point gets its call of the
\* decrement helper.
C17_EmittedPoints ==
    metered =>
        /\ \A p \in 0..(Len(original_code) - 1) :
              /\ static_code_before(p) = static_code_of(static_points_at(ghost.points, p))
              /\ Len(helper_calls_before(p)) = Len(dynamic_points_at(ghost.points, p))
        /\ \A p \in {0} \cup loop_headers :
              \E cost \in 0..Len(original_code) :
                  static_code_before(p) = decrement_by(cost) \o check_below_zero

\* A loop without instructions, whose header has cost 0, and a point of cost
\* 0 that is not reentrant and gets no code.
C17_Witness ==
    /\ metered
    /\ \E p \in loop_headers : static_code_before(p) = decrement_by(0) \o check_below_zero
    /\ \E k \in DOMAIN ghost.points :
          /\ ghost.points[k].cost_detail.kind = "StaticCost"
          /\ ghost.points[k].cost_detail.cost = 0
          /\ ghost.points[k].cost_detail.scope # "ReentrantBlockStart"
          /\ injected_before(ghost.points[k].position) = <<>>

\* The points of position p that pass the filter of inject_metering.
kept_points_at(points, p) ==
    SelectSeq(points, LAMBDA pt : pt.position = p /\ point_is_kept(pt))

RECURSIVE code_of_points(_)
code_of_points(points) ==
    IF points = <<>> THEN <<>>
    ELSE point_instructions(points[1],
                            export_module_data_of(orig, flags.wasm_native_stable_memory))
         \o code_of_points(Tail(points))

\* C20: inject_metering only inserts.  Without the injected instructions the
\* result is the input sequence; the instructions of a point of position p
\* sit right before the original instruction of position p, and nowhere
\* else; a dynamic and a static point of the same position both have their
\* instructions before that instruction.
C20_OnlyInserts ==
    metered =>
        /\ SelectSeq(metered_code, is_original) = original_code
        /\ is_original(metered_code[Len(metered_code)])
        /\ \A p \in 0..(Len(original_code) - 1) :
              /\ injected_before(p) = code_of_points(kept_points_at(ghost.points, p))
              /\ (dynamic_points_at(ghost.points, p) # <<>>
                    /\ kept_points_at(static_points_at(ghost.points, p), p) # <<>>)
                 => (helper_calls_before(p) # <<>> /\ static_code_before(p) # <<>>)

\* A memory.fill that opens the code after a br_if: the call of the helper
\* and the decrement of the static point are both in front of it.
C20_Witness ==
    /\ metered
    /\ \E p \in 1..(Len(original_code) - 1) :
          /\ original_code[p + 1].op = "MemoryFill"
          /\ original_code[p].op = "BrIf"
          /\ dynamic_points_at(ghost.points, p) # <<>>
          /\ kept_points_at(static_points_at(ghost.points, p), p) # <<>>
          /\ Len(injected_before(p)) = 5
          /\ metered_code[place_of(p) - 1] # Call(helper_of_points)

(***************************************************************************)
(* SpecHelper: functions with a memory.fill whose length is a parameter,   *)
(* instrumented and run with lengths that include 2^32 - 1.                *)
(***************************************************************************)
HelperPrograms ==
    {<<I32Const(0), I32Const(0), LocalGet(0), MemoryFill>>,
     <<I32Const(0), I32Const(0), LocalGet(0), LocalGet(1), BrIf(0), MemoryFill>>,
     <<I32Const(0), I32Const(0), LocalGet(0), MemoryFill,
       I32Const(0), I32Const(0), LocalGet(1), MemoryFill>>,
     <<Loop, I32Const(0), I32Const(0), LocalGet(0), MemoryFill, LocalGet(1), BrIf(0), End>>}

HelperModule(body) ==
    [EmptyModule EXCEPT
        !.types = <<FuncType(<<"I32", "I32">>, <<>>)>>,
        !.functions = <<0>>,
        !.code_sections = <<body>>,
        !.memories = <<MemoryType(FALSE, 1, <<>>)>>,
        !.exports = <<Export(RUN_EXPORT, "Func", 0)>>]

InitHelper ==
    /\ \E p \in HelperPrograms : module = HelperModule(Body(<<>>, tagged(p \o <<End>>)))
    /\ orig = module
    /\ applied = <<>>
    /\ flags = [write_barrier |-> "Disabled", wasm_native_stable_memory |-> "Disabled"]
    /\ out = <<>>
    /\ machine = IdleMachine
    /\ ghost = NoGhost

NextHelper ==
    \/ Instrument
    \/ Invoke
    \/ StepConst
    \/ StepLocal
    \/ StepGlobal
    \/ StepNumeric
    \/ StepBlock
    \/ StepIf
    \/ StepEnd
    \/ StepBranch
    \/ StepCall
    \/ StepMemoryFill

SpecHelper == InitHelper /\ [][NextHelper]_vars

\* Without the stable memory the decrement helper is the last function of
\* the instrumented module.
decr_helper == Len(FuncImports(module)) + Len(module.functions) - 1

run_code == body_of(module, entry_function(module)).instructions

\* The places of the bulk instructions in the instrumented function.
bulk_places ==
    {q \in DOMAIN run_code : is_original(run_code[q]) /\ run_code[q].op \in DynamicCostOps}

\* The injected instructions between the original instruction before place
\* q and place q.
injected_run(q) ==
    LET first == CHOOSE f \in 1..q :
                    /\ \A j \in f..(q - 1) : ~is_original(run_code[j])
                    /\ f > 1 => is_original(run_code[f - 1])
    IN  SubSeq(run_code, first, q - 1)

\* The engine is in the decrement helper, past the instruction at pc.
in_helper_past(pc) ==
    /\ machine.status \in {"running", "trapped"}
    /\ top.func = decr_helper
    /\ top.pc > pc

\* The counter when the helper was entered: nothing was charged since.
counter_at_entry == (ghost.initial - ghost.entered) - ghost.bulk

\* What the helper does: past the global.set (pc 4) the counter is the
\* counter at entry minus the unsigned value of the argument; the call of
\* out_of_instructions (pc 9) is reached with a negative counter only, and
\* the end of the If (pc 10) is passed, and the argument returned (pc 12),
\* with a counter of 0 or more only, which an argument with its top bit set
\* never leaves.
helper_semantics ==
    /\ in_helper_past(4) =>
          i64_wide(counter) = i64_wide(i64_sub(counter_at_entry, i64_extend_i32_u(top.locals[1])))
    /\ (in_helper_past(4) /\ top.pc = 9) => i64_lt_s(counter, 0)
    /\ (in_helper_past(4) /\ machine.status = "trapped") => top.pc = 9
    /\ in_helper_past(10) => ~i64_lt_s(counter, 0) /\ top.locals[1] >= 0
    /\ in_helper_past(11) => Last(machine.stack) = top.locals[1]

\* C19 as stated: the one call of the decrement helper for a dynamic point
\* is the instruction immediately before the bulk instruction; the helper
\* decreases the counter by its argument read as unsigned, calls
\* out_of_instructions exactly when the counter is below 0 afterwards, and
\* returns its argument.
C19_HelperCallAdjacent ==
    instrumented =>
        /\ \A q \in bulk_places :
              /\ run_code[q - 1] = Call(decr_helper)
              /\ Len(SelectSeq(injected_run(q), LAMBDA i : i = Call(decr_helper))) = 1
        /\ helper_semantics

\* C19, amended: the instructions injected right before a bulk instruction
\* hold exactly one call of the decrement helper, and it comes first among
\* them: the decrement of a static point of the same position lies between
\* the call and the bulk instruction and leaves the stack as the call left
\* it.  The helper decreases the counter by its argument read as unsigned,
\* calls out_of_instructions exactly when the counter is below 0
\* afterwards, and returns its argument.
C19_HelperCallBeforeBulk ==
    instrumented =>
        /\ \A q \in bulk_places :
              /\ injected_run(q)[1] = Call(decr_helper)
              /\ Len(SelectSeq(injected_run(q), LAMBDA i : i = Call(decr_helper))) = 1
              /\ \A j \in 2..Len(injected_run(q)) :
                    injected_run(q)[j].op \in {"GlobalGet", "I64Const", "I64Sub", "GlobalSet"}
        /\ helper_semantics

\* The helper returns a length of 1 after it took it from the counter, and
\* the fill runs.
C19_Witness ==
    /\ instrumented
    /\ machine.status = "running"
    /\ is_original(instr) /\ instr.op = "MemoryFill"
    /\ Last(machine.stack) = 1
    /\ \E k \in DOMAIN code : code[k] = Call(decr_helper) /\ k < top.pc + 1

\* The helper called with a length of 2^32 - 1 reports that the instructions
\* ran out.
C19_WitnessUnsigned ==
    /\ in_helper_past(4)
    /\ machine.status = "trapped"
    /\ top.locals[1] = -1
    /\ out_of_instructions_called

\* C25: export_table keeps the export names pairwise distinct: run on a
\* module whose export names are pairwise distinct, it leaves a module whose
\* export names are pairwise distinct, so at most one export is named
\* "table", also when the module has several table exports or an export of
\* another kind named "table".
C25_ExportNamesStayDistinct ==
    (applied # <<>> /\ Last(applied) = "export_table" /\ DistinctNames(orig.exports))
        => DistinctNames(module.exports)

RECURSIVE sum_of_instruction_costs(_)
sum_of_instruction_costs(instructions) ==
    IF instructions = <<>> THEN 0
    ELSE instruction_to_cost(instructions[1]) + sum_of_instruction_costs(Tail(instructions))

static_points(points) == SelectSeq(points, LAMBDA pt : pt.cost_detail.kind = "StaticCost")

\* C23: the points injections returns for a block-balanced body are sorted
\* by position, every position is an index of the body, and the static costs
\* of the points add up to the sum of instruction_to_cost over the
\* instructions of the body.
C23_PointsCoverTheBody ==
    metered =>
        /\ \A j, k \in DOMAIN ghost.points :
              j < k => ghost.points[j].position <= ghost.points[k].position
        /\ \A k \in DOMAIN ghost.points : ghost.points[k].position \in 0..(Len(original_code) - 1)
        /\ sum_of_costs(static_points(ghost.points)) = sum_of_instruction_costs(original_code)

\* A body with a branch inside a block: the point behind the branch is
\* recorded before the point of the function, and the costs are spread
\* over more than two points.
C23_Witness ==
    /\ metered
    /\ Len(static_points(ghost.points)) >= 3
    /\ \E p \in 1..Len(original_code) : original_code[p].op \in {"Br", "BrIf", "BrTable"}
    /\ \E p \in 1..Len(original_code) : original_code[p].op \in {"Block", "Loop", "If"}
    /\ sum_of_instruction_costs(original_code) >= 2

(***************************************************************************)
(* SpecSymbols: instrument on modules with or without an imported          *)
(* function, an imported global and globals of their own, whose first      *)
(* function has a loop, a memory.fill, a memory.grow, a store or a call,   *)
(* under every setting of the two flags.                                   *)
(***************************************************************************)
SymbolFuncImports ==
    {<<>>, <<Import(API_VERSION_IC0, "stable_size", [kind |-> "Func", index |-> 0])>>}

\* The bodies of the first function; f is the index of the second, which
\* the last body calls.
SymbolPrograms(f) ==
    {<<Nop>>,
     <<Loop, Nop, End>>,
     <<I32Const(0), I32Const(0), I32Const(2), MemoryFill>>,
     <<I32Const(1), MemoryGrow, Op("Drop")>>,
     <<I32Const(0), I32Const(7), I32Store8(MemArg(0, 0))>>,
     <<Call(f), GlobalGet(0), Op("Drop")>>}

SymbolsModule(func_imports, global_imports, globals, program, start) ==
    [EmptyModule EXCEPT
        !.types = <<FuncType(<<>>, <<"I32">>), FuncType(<<>>, <<>>)>>,
        !.imports = func_imports \o global_imports,
        !.functions = <<1, 1>>,
        !.code_sections = <<Body(<<>>, tagged(program \o <<End>>)),
                            Body(<<>>, tagged(<<Nop, End>>))>>,
        !.globals = <<Global("I32", FALSE, I32Const(5))>> \o globals,
        !.memories = <<MemoryType(FALSE, 1, <<>>)>>,
        !.start = start,
        !.exports = <<Export(RUN_EXPORT, "Func", Len(func_imports))>>]

InitSymbols ==
    /\ \E func_imports \in SymbolFuncImports, global_imports \in GlobalImportChoices,
          globals \in {<<>>, <<Global("I64", TRUE, I64Const(0))>>} :
            \E program \in SymbolPrograms(Len(func_imports) + 1),
               start \in {<<>>, <<Len(func_imports) + 1>>} :
                module = SymbolsModule(func_imports, global_imports, globals, program, start)
    /\ orig = module
    /\ applied = <<>>
    /\ flags \in Flags
    /\ out = <<>>
    /\ machine = IdleMachine
    /\ ghost = NoGhost

NextSymbols == InstrumentOutput

SpecSymbols == InitSymbols /\ [][NextSymbols]_vars

\* The Export Metadata instrument computed for the module it was given.
export_metadata ==
    instrument_passes(orig, flags.write_barrier, flags.wasm_native_stable_memory).export_module_data

\* The items instrument pushed: they follow the items the module had.  The
\* index of an item counts the imported items of its kind first.
pushed_global_index(k) == Len(GlobalImports(module)) + Len(orig.globals) + k

pushed_function_index(k) == Len(FuncImports(module)) + Len(orig.functions) + k

global_of(m, ix) == m.globals[ix - Len(GlobalImports(m)) + 1]

\* The instructions the passes put into the functions the module had.
emitted_instructions ==
    UNION {{module.code_sections[b].instructions[p] :
               p \in {q \in DOMAIN module.code_sections[b].instructions :
                         ~is_original(module.code_sections[b].instructions[q])}} :
           b \in DOMAIN orig.code_sections}

\* C21: the indices of the Export Metadata, computed before instrument
\* pushes its functions and globals, are the indices these items have in
\* the module that comes out: the counter of instructions and the decrement
\* function, and with the native stable memory the counter of dirty pages
\* and the function that counts clean pages; the global.get, global.set and
\* call the metering emitted name the counter and the decrement function.
C21_MetadataIndicesAreReal ==
    instrumented =>
        /\ export_metadata.instructions_counter_ix = pushed_global_index(0)
        /\ global_of(module, export_metadata.instructions_counter_ix) =
               Global("I64", TRUE, I64Const(0))
        /\ export_metadata.decr_instruction_counter_fn = pushed_function_index(0)
        /\ body_of(module, export_metadata.decr_instruction_counter_fn) =
               decr_instruction_counter_body(export_metadata)
        /\ type_of(module, export_metadata.decr_instruction_counter_fn) =
               FuncType(<<"I32">>, <<"I32">>)
        /\ flags.wasm_native_stable_memory = "Enabled" =>
              /\ export_metadata.dirty_pages_counter_ix = <<pushed_global_index(1)>>
              /\ global_of(module, export_metadata.dirty_pages_counter_ix[1]) =
                     Global("I64", TRUE, I64Const(0))
              /\ export_metadata.count_clean_pages_fn = <<pushed_function_index(1)>>
              /\ type_of(module, export_metadata.count_clean_pages_fn[1]) =
                     FuncType(<<"I32", "I32">>, <<"I32">>)
              /\ body_of(module, export_metadata.count_clean_pages_fn[1]).locals = <<<<2, "I32">>>>
        /\ flags.wasm_native_stable_memory = "Disabled" =>
              /\ export_metadata.dirty_pages_counter_ix = <<>>
              /\ export_metadata.count_clean_pages_fn = <<>>
        /\ \A i \in emitted_instructions :
              /\ i.op \in {"GlobalGet", "GlobalSet"} => i.global_index = pushed_global_index(0)
              /\ (i.op = "Call" /\ i.function_index \notin {OutOfInstructions, UpdateAvailableMemory})
                    => i.function_index = pushed_function_index(0)

\* A module with an imported function, an imported global and two globals
\* of its own, instrumented with the native stable memory: its first
\* function calls the decrement function before its memory.fill.
C21_Witness ==
    /\ instrumented
    /\ flags.wasm_native_stable_memory = "Enabled"
    /\ FuncImports(orig) # <<>>
    /\ GlobalImports(orig) # <<>>
    /\ Len(orig.globals) = 2
    /\ Call(pushed_function_index(0)) \in emitted_instructions
    /\ GlobalGet(pushed_global_index(0)) \in emitted_instructions
    /\ out[1].ok

(***************************************************************************)
(* SpecLocals: the growth guard and the write barrier on functions with 0  *)
(* to 2 parameters, with and without locals of their own, whose body is up *)
(* to MaxSites sites: a memory.grow, a store of each value type, a nop.    *)
(***************************************************************************)
MaxSites == 2

LocalsParams == {<<>>, <<"I32">>, <<"I32", "I64">>}

LocalsLocals == {<<>>, <<<<1, "I64">>>>, <<<<2, "I32">>, <<1, "F64">>>>}

LocalsSites ==
    {<<Nop>>, <<I32Const(1), MemoryGrow, Op("Drop")>>}
    \cup {<<I32Const(0), value_const(op), [op |-> op, memarg |-> MemArg(offset, 0)]>> :
             op \in {"I32Store", "I64Store8", "F32Store", "F64Store"}, offset \in {0, 1}}

RECURSIVE LocalsPrograms(_)
LocalsPrograms(n) ==
    IF n = 0 THEN {<<>>}
    ELSE LocalsPrograms(n - 1)
         \cup {site \o rest : site \in LocalsSites, rest \in LocalsPrograms(n - 1)}

LocalsModule(params, locals, program) ==
    [EmptyModule EXCEPT
        !.types = <<FuncType(params, <<>>)>>,
        !.functions = <<0>>,
        !.code_sections = <<Body(locals, tagged(program \o <<End>>))>>,
        !.memories = <<MemoryType(FALSE, 1, <<>>)>>,
        !.exports = <<Export(RUN_EXPORT, "Func", 0)>>]

InitLocals ==
    /\ \E params \in LocalsParams, locals \in LocalsLocals,
          program \in LocalsPrograms(MaxSites) :
            module = LocalsModule(params, locals, program)
    /\ orig = module
    /\ applied = <<>>
    /\ flags \in {f \in Flags : f.wasm_native_stable_memory = "Disabled"}
    /\ out = <<>>
    /\ machine = IdleMachine
    /\ ghost = NoGhost

\* The two passes instrument runs on each function after the metering.
InjectFunctionPasses ==
    /\ applied = <<>>
    /\ module' = [module EXCEPT !.code_sections[1] =
                     inject_function_passes(@, module.types[module.functions[1] + 1],
                                            flags.write_barrier)]
    /\ orig' = module
    /\ applied' = <<"inject_function_passes">>
    /\ UNCHANGED <<flags, out, machine, ghost>>

NextLocals == InjectFunctionPasses

SpecLocals == InitLocals /\ [][NextLocals]_vars

\* The types of the locals a function declares, one per local.
RECURSIVE flat_locals(_)
flat_locals(locals) ==
    IF locals = <<>> THEN <<>>
    ELSE [k \in 1..locals[1][1] |-> locals[1][2]] \o flat_locals(Tail(locals))

passes_ran == applied = <<"inject_function_passes">>

locals_params == orig.types[1].params

old_body == orig.code_sections[1]

new_body == module.code_sections[1]

\* The type of the local of index ix in the function that came out, or
\* "none" when the function has no such local.
local_type(ix) ==
    IF ix < Len(locals_params) THEN locals_params[ix + 1]
    ELSE IF ix - Len(locals_params) < Len(flat_locals(new_body.locals))
    THEN flat_locals(new_body.locals)[ix - Len(locals_params) + 1]
    ELSE "none"

store_value_type(op) ==
    CASE op \in I32StoreOps -> "I32"
      [] op \in I64StoreOps -> "I64"
      [] op = "F32Store" -> "F32"
      [] op = "F64Store" -> "F64"

\* The places of the original instructions of a kind in the new body that
\* have an injected instruction before them.
places_of(ops) ==
    {q \in DOMAIN new_body.instructions :
        /\ is_original(new_body.instructions[q]) /\ new_body.instructions[q].op \in ops
        /\ q > 1 /\ ~is_original(new_body.instructions[q - 1])}

\* The scratch locals by their use: the local of the growth guard, the
\* address local of the barrier, its value local for each value type.
scratch_locals(use) ==
    CASE use = "grow" -> {new_body.instructions[q - 1].local_index : q \in places_of({"MemoryGrow"})}
      [] use = "address" -> {new_body.instructions[q - 2].local_index : q \in places_of(StoreOps)}
      [] OTHER -> {new_body.instructions[q - 1].local_index :
                      q \in {p \in places_of(StoreOps) :
                                store_value_type(new_body.instructions[p].op) = use}}

ScratchUses == {"grow", "address", "I32", "I64", "F32", "F64"}

scratch_type(use) == IF use \in {"grow", "address"} THEN "I32" ELSE use

\* The local instructions the passes injected.
injected_local_indices ==
    {new_body.instructions[q].local_index :
        q \in {p \in DOMAIN new_body.instructions :
                  /\ ~is_original(new_body.instructions[p])
                  /\ new_body.instructions[p].op \in {"LocalGet", "LocalSet", "LocalTee"}}}

\* C24: the scratch locals of the growth guard and of the write barrier do
\* not collide.  Every scratch index is at least the number of parameters
\* plus the locals the function had; the local of the growth guard and the
\* five locals of the barrier are pairwise distinct; each index names a
\* local of the type of its use (i32 for the growth delta and the address,
\* the value type of the store for its value); a function without
\* memory.grow and without store comes out with the locals and the
\* instructions it had.
C24_ScratchLocalsDistinct ==
    passes_ran =>
        LET base == Len(locals_params) + n_locals(old_body.locals)
            grows == positions_of(old_body.instructions, {"MemoryGrow"}, 0) # <<>>
            stores == flags.write_barrier = "Enabled"
                      /\ positions_of(old_body.instructions, StoreOps, 0) # <<>>
            added == SubSeq(flat_locals(new_body.locals),
                            n_locals(old_body.locals) + 1, n_locals(new_body.locals))
        IN  /\ \A ix \in injected_local_indices : ix >= base /\ local_type(ix) # "none"
            /\ SubSeq(new_body.locals, 1, Len(old_body.locals)) = old_body.locals
            /\ added = (IF grows THEN <<"I32">> ELSE <<>>)
                       \o (IF stores THEN <<"I32", "I32", "I64", "F32", "F64">> ELSE <<>>)
            /\ \A use \in ScratchUses :
                  /\ Cardinality(scratch_locals(use)) <= 1
                  /\ \A ix \in scratch_locals(use) : local_type(ix) = scratch_type(use)
            /\ stores => \A u1, u2 \in ScratchUses :
                  u1 # u2 => scratch_locals(u1) \cap scratch_locals(u2) = {}
            /\ Cardinality(places_of({"MemoryGrow"})) =
                   Len(positions_of(old_body.instructions, {"MemoryGrow"}, 0))
            /\ \A q \in places_of({"MemoryGrow"}) :
                  /\ new_body.instructions[q - 1].op = "LocalTee"
                  /\ new_body.instructions[q + 1] = LocalGet(new_body.instructions[q - 1].local_index)
            /\ Cardinality(places_of(StoreOps)) =
                   IF stores THEN Len(positions_of(old_body.instructions, StoreOps, 0)) ELSE 0
            /\ \A q \in places_of(StoreOps) :
                  /\ new_body.instructions[q - 1].op = "LocalGet"
                  /\ new_body.instructions[q - 2].op = "LocalGet"
                  /\ ~is_original(new_body.instructions[q - 2])
            /\ (~grows /\ positions_of(old_body.instructions, StoreOps, 0) = <<>>)
                  => new_body = old_body

\* A function with a parameter and locals of its own that grows the memory
\* and stores an i64 and an f64: four scratch locals are in use.
C24_Witness ==
    /\ passes_ran
    /\ flags.write_barrier = "Enabled"
    /\ locals_params # <<>>
    /\ old_body.locals # <<>>
    /\ scratch_locals("grow") # {}
    /\ scratch_locals("address") # {}
    /\ Cardinality(injected_local_indices) >= 3
    /\ \E use \in {"I64", "F32", "F64"} : scratch_locals(use) # {}


(***************************************************************************)
(* SpecPaths: every path through a metered body.  The programs are those   *)
(* of SpecMeter with br_table among the statements: the host chooses the   *)
(* index, so the listed target and the default are both taken.             *)
(***************************************************************************)
RECURSIVE PathStatement(_, _)
RECURSIVE PathStatements(_, _)
PathStatement(n, depth) ==
    {<<Nop>>, <<Return>>, <<I32Const(0), I32Const(0), Call(0), MemoryFill>>}
    \cup {<<Br(d)>> : d \in BranchDepths(depth)}
    \cup {<<Call(0), BrIf(d)>> : d \in BranchDepths(depth)}
    \cup {<<Call(0), BrTable(d)>> : d \in BranchDepths(depth)}
    \cup {<<b>> \o body \o <<End>> : b \in {Block, Loop}, body \in PathStatements(n - 1, depth + 1)}
    \cup {<<Call(0), If>> \o body \o <<End>> : body \in PathStatements(n - 1, depth + 1)}
    \cup UNION {{<<Call(0), If>> \o b1 \o <<Else>> \o b2 \o <<End>> :
                    b1 \in PathStatements(k, depth + 1),
                    b2 \in PathStatements(n - 1 - k, depth + 1)} : k \in 0..(n - 1)}

PathStatements(n, depth) ==
    {<<>>} \cup UNION {{s \o rest : s \in PathStatement(k, depth),
                                     rest \in PathStatements(n - k, depth)} : k \in 1..n}

PathBodies == {Body(<<>>, tagged(p \o <<End>>)) : p \in PathStatements(MaxStatements, 0)}

InitPaths ==
    /\ \E body \in PathBodies : module = MeterModule(body)
    /\ orig = module
    /\ applied = <<>>
    /\ flags = [write_barrier |-> "Disabled", wasm_native_stable_memory |-> "Disabled"]
    /\ out = <<>>
    /\ machine = IdleMachine
    /\ ghost = NoGhost

\* br_table pops an index and branches to the target it selects, to the
\* default when the index (unsigned) is past the end of the table.
StepBranchTable ==
    /\ running({"BrTable"})
    /\ LET index == Last(machine.stack)
           d == IF index >= 0 /\ index < Len(instr.targets)
                THEN instr.targets[index + 1] ELSE instr.default
       IN  machine' = branch(pop(machine, 1), d)
    /\ ghost' = observe(ghost, instr)
    /\ UNCHANGED pass_vars

NextPaths ==
    \/ NextMeter
    \/ StepBranchTable

SpecPaths == InitPaths /\ [][NextPaths]_vars

\* What the run has taken off the counter so far.
subtracted == i64_sub(ghost.initial, counter)

(***************************************************************************)
(* C22: metering never undercharges.  At every point of every run of an    *)
(* instrumented body, whatever its nesting of block, loop and if/else and  *)
(* whatever br, br_if and br_table it takes, the amount subtracted from    *)
(* the counter so far is at least the sum of instruction_to_cost over the  *)
(* original instructions executed so far.                                  *)
(***************************************************************************)
C22_NeverUndercharged ==
    machine.status # "idle" => ~i64_lt_s(subtracted, ghost.executed)

\* A br_table has just been executed inside a block of a body that is past
\* its first instructions, and the run goes on.
C22_Witness ==
    /\ machine.status = "running"
    /\ ghost.last # <<>>
    /\ ghost.last[1].op = "BrTable"
    /\ ghost.executed >= 3
    /\ \E p \in 1..Len(original_code) : original_code[p].op = "Loop"
    /\ ~i64_lt_s(subtracted, ghost.executed)

====
